---- MODULE Spec2Model ----
(***************************************************************************)
(* Tariff-aware recommendation engine of the ml-service                    *)
(* (app/services/recommendation_engine.py, class RecommendationEngine).    *)
(*                                                                         *)
(* Units.  The engine computes with Python floats; the model computes with *)
(* exact integers in fixed units:                                          *)
(*   rates           mills per kWh      (0.12 $/kWh = 120)                 *)
(*   cost_savings    cents, after the code's round(x, 2)                   *)
(*   co2_reduction   1/100 kg, after the code's round(x, 2)                *)
(*   consumption     whole kWh, carbon intensity whole gCO2/kWh            *)
(* Where the exact value lies on a boundary of round() or int(), both      *)
(* neighbours are outcomes of the model (see Round and IntTrunc).          *)
(*                                                                         *)
(* Timestamps.  An ISO string is [ok, h, m]: ok says whether               *)
(* datetime.fromisoformat accepts it, h is the hour count since            *)
(* 2024-01-01T00:00 (a Monday) and m the minute.  All strings are naive    *)
(* local times, one spelling per instant, so string equality is record     *)
(* equality.                                                               *)
(*                                                                         *)
(* Specifications.  SpecRate: one call of get_rate_at_time and one of      *)
(* calculate_electricity_cost on the same timestamp, tariff and realtime   *)
(* prices.  Spec: one call of generate_recommendations, a step per         *)
(* generator block and a last step for the sort and the slice.  SpecHttp:  *)
(* requests to the two POST routes.  SpecWeather: WeatherService objects   *)
(* created and asked for forecasts over the days.  SpecPeriod: one call of *)
(* _is_in_period.                                                          *)
(***************************************************************************)
EXTENDS Integers, Sequences, FiniteSets, TLC

VARIABLES
    \* inputs shared by the resolver and the orchestrator
    pricing_data, caiso_pricing,
    \* rate resolver / cost estimator call under test
    q_timestamp, q_kwh, rate_result, cost_result,
    \* generate_recommendations
    consumption_forecast, carbon_forecast, weather_forecast,
    historical_baseline, ev_fleet_size,
    pc, recommendations, invoked, raised, built, propagated,
    \* HTTP routes: the measurements in the database and the last request
    measurements, endpoint, fetched, http_status, trained, generated,
    \* the position of the /generate handler and its local weather_forecasts
    step, weather_forecasts,
    \* WeatherService: the clock, the class, its instances, the API's log
    today, cache, instances, outbound, returned, last_call,
    \* _is_in_period call under test
    p_hour, p_day, p_config, p_result

vars == <<pricing_data, caiso_pricing, q_timestamp, q_kwh, rate_result,
          cost_result, consumption_forecast, carbon_forecast,
          weather_forecast, historical_baseline, ev_fleet_size, pc,
          recommendations, invoked, raised, built, propagated,
          measurements, endpoint, fetched, http_status, trained, generated,
          step, weather_forecasts,
          today, cache, instances, outbound, returned, last_call,
          p_hour, p_day, p_config, p_result>>

rateVars == <<q_timestamp, q_kwh, rate_result, cost_result>>

engineVars == <<consumption_forecast, carbon_forecast, weather_forecast,
                historical_baseline, ev_fleet_size, pc, recommendations,
                invoked, raised, built, propagated>>

httpVars == <<measurements, endpoint, fetched, http_status, trained, generated,
              step, weather_forecasts>>

weatherVars == <<today, cache, instances, outbound, returned, last_call>>

periodVars == <<p_hour, p_day, p_config, p_result>>

serviceVars == <<httpVars, weatherVars, periodVars>>

----------------------------------------------------------------------------
(* Bounds of the model *)

\* longest realtime price list
MaxCaiso == 2
\* most top-level (legacy) periods in a rate_structure
MaxPeriods == 2
\* consumption quantities priced by the cost estimator: 1..MaxKwh
MaxKwh == 2

(* Program constants *)

\* 0.12 $/kWh, the global fallback rate
DefaultRate == 120

----------------------------------------------------------------------------
(* Python values *)

\* dict.get(key) of a numeric key: <<>> when the key is absent, <<v>> else
Absent == <<>>
Some(v) == <<v>>
GetOr(opt, default) == IF opt = <<>> THEN default ELSE opt[1]
\* a key that is present with the value None (a NULL column of the row)
NoneValue == <<0, 0>>

\* the outcome of a call: a value ("ret"), or an exception leaving the callee
\* ("raise"); inside a function "fall" is control falling through to the next
\* statement
Ret(v) == [st |-> "ret", val |-> v]
Raise == [st |-> "raise", val |-> 0]
Fall == [st |-> "fall", val |-> 0]

\* Floats are modelled by exact quotients of integers.  Where the exact value
\* lies on a boundary (a tie of round(), a whole number under int()) the
\* binary float falls on one side or the other of it, so these operators
\* give the set of the values the float computation can yield.

\* round(x, 2) of x = num/den hundredths (den > 0): nearest
Round(num, den) ==
    LET q == num \div den
        r == num % den
    IN  IF 2 * r < den THEN {q}
        ELSE IF 2 * r > den THEN {q + 1}
        ELSE {q, q + 1}

\* int(x) of x = num/den >= 0 (den > 0): truncation
IntTrunc(num, den) ==
    IF num > 0 /\ num % den = 0 THEN {num \div den - 1, num \div den}
    ELSE {num \div den}

----------------------------------------------------------------------------
(* datetime *)

Ts(h, m) == [ok |-> TRUE, h |-> h, m |-> m]
BadTs == [ok |-> FALSE, h |-> 0, m |-> 0]

\* dt.hour
HourOf(ts) == ts.h % 24
\* dt.weekday(), Monday = 0
WeekdayOf(ts) == (ts.h \div 24) % 7
\* dt.month, year 2024
MonthOf(ts) ==
    LET d == (ts.h \div 24) % 366
    IN  IF d < 31 THEN 1 ELSE IF d < 60 THEN 2 ELSE IF d < 91 THEN 3
        ELSE IF d < 121 THEN 4 ELSE IF d < 152 THEN 5 ELSE IF d < 182 THEN 6
        ELSE IF d < 213 THEN 7 ELSE IF d < 244 THEN 8 ELSE IF d < 274 THEN 9
        ELSE IF d < 305 THEN 10 ELSE IF d < 335 THEN 11 ELSE 12
\* dt.replace(minute=0, second=0, microsecond=0)
TruncHour(ts) == [ts EXCEPT !.m = 0]
\* dt + timedelta(hours=n), as a string again
AddHours(ts, n) == [ts EXCEPT !.h = ts.h + n]
\* dt + timedelta(minutes=n)
AddMinutes(ts, n) ==
    LET total == 60 * ts.h + ts.m + n
    IN  [ts EXCEPT !.h = total \div 60, !.m = total % 60]

----------------------------------------------------------------------------
(* Tariff values.                                                          *)
(* hours:   [kind, ranges]   kind "absent" (no key), "none" (None),        *)
(*                           "list" (a list of ranges, each a list)        *)
(* days:    [present, set]                                                 *)
(* period:  [isdict, rate, hours, days]    rate <<>> when there is no key  *)
(* season:  [kind, months, periods]  kind "absent", "number", "dict";      *)
(*                                   periods [present, items]              *)
(* seasons: [kind, summer, winter]   kind "absent", "number", "dict"       *)
(* tou season: [kind, months, onPeak, midPeak, offPeak]  (hours values)    *)
(* timeOfUse:  [kind, summer, winter]      kind "absent", "dict"           *)
(* energyCharges: [kind, onPeak, midPeak, offPeak]                         *)
(*                                   kind "absent", "number", "dict"       *)
(* rate_structure: [kind, seasons, timeOfUse, energyCharges, periods]      *)
(*     kind "absent" (no key or None), "empty" ({}), "nondict" (a truthy   *)
(*     value that is no dict), "dict"; periods are the remaining top-level *)
(*     items in iteration order                                            *)
(* pricing_data: [kind, rate_structure, off_peak_rate, demand_charge,      *)
(*     demand_threshold]  kind "none", "empty" ({}), "nondict", "dict"     *)
(***************************************************************************)

AllDays == 0..6
DefaultSummerMonths == {5, 6, 7, 8, 9}

NoHours == [kind |-> "absent", ranges |-> <<>>]
NoneHours == [kind |-> "none", ranges |-> <<>>]
Hours(ranges) == [kind |-> "list", ranges |-> ranges]
NoDays == [present |-> FALSE, set |-> {}]
Days(set) == [present |-> TRUE, set |-> set]
NoMonths == [present |-> FALSE, set |-> {}]
Months(set) == [present |-> TRUE, set |-> set]
Period(rate, hours, days) ==
    [isdict |-> TRUE, rate |-> rate, hours |-> hours, days |-> days]
NonDictPeriod == [isdict |-> FALSE, rate |-> Absent, hours |-> NoHours, days |-> NoDays]

NoPeriods == [present |-> FALSE, items |-> <<>>]
Periods(items) == [present |-> TRUE, items |-> items]
NoSeason == [kind |-> "absent", months |-> NoMonths, periods |-> NoPeriods]
NumberSeason == [kind |-> "number", months |-> NoMonths, periods |-> NoPeriods]
Season(months, periods) == [kind |-> "dict", months |-> months, periods |-> periods]
NoSeasons == [kind |-> "absent", summer |-> NoSeason, winter |-> NoSeason]
NumberSeasons == [kind |-> "number", summer |-> NoSeason, winter |-> NoSeason]
Seasons(summer, winter) == [kind |-> "dict", summer |-> summer, winter |-> winter]

NoTouSeason ==
    [kind |-> "absent", months |-> NoMonths, onPeak |-> NoHours,
     midPeak |-> NoHours, offPeak |-> NoHours]
TouSeason(months, on, mid, off) ==
    [kind |-> "dict", months |-> months, onPeak |-> on, midPeak |-> mid,
     offPeak |-> off]
NoTou == [kind |-> "absent", summer |-> NoTouSeason, winter |-> NoTouSeason]
Tou(summer, winter) == [kind |-> "dict", summer |-> summer, winter |-> winter]
NoCharges == [kind |-> "absent", onPeak |-> Absent, midPeak |-> Absent, offPeak |-> Absent]
NumberCharges == [kind |-> "number", onPeak |-> Absent, midPeak |-> Absent, offPeak |-> Absent]
Charges(on, mid, off) == [kind |-> "dict", onPeak |-> on, midPeak |-> mid, offPeak |-> off]

RateStructure(seasons, tou, charges, periods) ==
    [kind |-> IF seasons.kind = "absent" /\ tou.kind = "absent"
                 /\ charges.kind = "absent" /\ periods = <<>>
              THEN "empty" ELSE "dict",
     seasons |-> seasons, timeOfUse |-> tou, energyCharges |-> charges,
     periods |-> periods]
NoRateStructure ==
    [kind |-> "absent", seasons |-> NoSeasons, timeOfUse |-> NoTou,
     energyCharges |-> NoCharges, periods |-> <<>>]
NonDictRateStructure == [NoRateStructure EXCEPT !.kind = "nondict"]

PricingDict(rs, off_peak_rate, demand_charge, demand_threshold) ==
    [kind |-> "dict", rate_structure |-> rs, off_peak_rate |-> off_peak_rate,
     demand_charge |-> demand_charge, demand_threshold |-> demand_threshold]
NoPricing == [PricingDict(NoRateStructure, Absent, Absent, Absent) EXCEPT !.kind = "none"]
EmptyPricing == [NoPricing EXCEPT !.kind = "empty"]
NonDictPricing == [NoPricing EXCEPT !.kind = "nondict"]

\* a realtime price record: 'timestamp' (a string or a datetime), 'lmp_kwh'
\* in mills per kWh, 'lmp' in $/MWh
CaisoRecord(has_ts, ts, lmp_kwh, lmp) ==
    [has_ts |-> has_ts, ts |-> ts, lmp_kwh |-> lmp_kwh, lmp |-> lmp]

----------------------------------------------------------------------------
(* RateResolver *)

RECURSIVE ScanRangesNoWrap(_, _)
\* the loop over hour_ranges without the branch for start_hour > end_hour
ScanRangesNoWrap(hour, ranges) ==
    IF ranges = <<>> THEN "out"
    ELSE LET r == Head(ranges)
         IN  IF Len(r) # 2 THEN "raise"
             ELSE IF r[1] <= hour /\ hour < r[2]
                  THEN "in" ELSE ScanRangesNoWrap(hour, Tail(ranges))

RECURSIVE ScanRanges(_, _)
\* "for start_hour, end_hour in hour_ranges": "in" on the first range that
\* holds the hour, "raise" on a range that does not unpack to two values
ScanRanges(hour, ranges) ==
    IF ranges = <<>> THEN "out"
    ELSE LET r == Head(ranges)
         IN  IF Len(r) # 2 THEN "raise"
             ELSE IF r[1] > r[2]
                  THEN IF hour >= r[1] \/ hour < r[2]
                       THEN "in" ELSE ScanRanges(hour, Tail(ranges))
                  ELSE IF r[1] <= hour /\ hour < r[2]
                       THEN "in" ELSE ScanRanges(hour, Tail(ranges))

\* iterating an hours value: None is not iterable
ScanHours(hour, hours) ==
    IF hours.kind = "none" THEN "raise"
    ELSE IF hours.kind = "absent" THEN "out"
    ELSE ScanRanges(hour, hours.ranges)

is_in_period(hour, day_of_week, period_config) ==
    LET valid_days == IF period_config.days.present
                      THEN period_config.days.set ELSE AllDays
    IN  IF day_of_week \notin valid_days THEN "out"
        ELSE ScanHours(hour, period_config.hours)

RECURSIVE ScanPeriods(_, _, _, _)
\* "for period_name, period_config in periods.items()": the rate of the first
\* dict period that matches; need_rate is the legacy loop's "'rate' in"
ScanPeriods(items, hour, day_of_week, need_rate) ==
    IF items = <<>> THEN Fall
    ELSE LET cfg == Head(items)
             rest == ScanPeriods(Tail(items), hour, day_of_week, need_rate)
         IN  IF ~cfg.isdict \/ (need_rate /\ cfg.rate = Absent) THEN rest
             ELSE LET m == is_in_period(hour, day_of_week, cfg)
                  IN  IF m = "raise" THEN Raise
                      ELSE IF m = "in" THEN Ret(GetOr(cfg.rate, DefaultRate))
                      ELSE rest

\* Format 1 with the default summer months whatever seasons.summer.months
SeasonalPeriodsDefaultMonths(rate_structure, hour, day_of_week, month) ==
    LET seasons == rate_structure.seasons
    IN  IF seasons.kind # "dict" THEN Fall
        ELSE IF seasons.summer.kind = "number" THEN Raise
        ELSE LET cfg == IF month \in DefaultSummerMonths THEN seasons.summer
                        ELSE seasons.winter
             IN  IF cfg.kind = "absent" THEN Fall
                 ELSE IF cfg.kind = "number" THEN Raise
                 ELSE IF ~cfg.periods.present THEN Fall
                 ELSE ScanPeriods(cfg.periods.items, hour, day_of_week, FALSE)

\* Format 1: seasons -> summer/winter -> periods
SeasonalPeriods(rate_structure, hour, day_of_week, month) ==
    LET seasons == rate_structure.seasons
    IN  IF seasons.kind # "dict" THEN Fall
        ELSE IF seasons.summer.kind = "number" THEN Raise
        ELSE LET months == IF seasons.summer.kind = "dict"
                               /\ seasons.summer.months.present
                           THEN seasons.summer.months.set
                           ELSE DefaultSummerMonths
                 cfg == IF month \in months THEN seasons.summer
                        ELSE seasons.winter
             IN  IF cfg.kind = "absent" THEN Fall
                 ELSE IF cfg.kind = "number" THEN Raise
                 ELSE IF ~cfg.periods.present THEN Fall
                 ELSE ScanPeriods(cfg.periods.items, hour, day_of_week, FALSE)

RECURSIVE ScanTouLastFirst(_, _, _, _)
\* the loop over the period names taken from the last name to the first
ScanTouLastFirst(names, season_config, charges, hour) ==
    IF names = <<>> THEN Fall
    ELSE LET p == names[Len(names)]
             rest == ScanTouLastFirst(SubSeq(names, 1, Len(names) - 1),
                                      season_config, charges, hour)
         IN  IF season_config[p].kind = "absent" THEN rest
             ELSE LET m == ScanHours(hour, season_config[p])
                  IN  IF m = "raise" THEN Raise
                      ELSE IF m = "in" THEN Ret(GetOr(charges[p], DefaultRate))
                      ELSE rest

RECURSIVE ScanTou(_, _, _, _)
\* "for period in ['onPeak', 'midPeak', 'offPeak']"
ScanTou(names, season_config, charges, hour) ==
    IF names = <<>> THEN Fall
    ELSE LET p == Head(names)
             rest == ScanTou(Tail(names), season_config, charges, hour)
         IN  IF season_config[p].kind = "absent" THEN rest
             ELSE LET m == ScanHours(hour, season_config[p])
                  IN  IF m = "raise" THEN Raise
                      ELSE IF m = "in" THEN Ret(GetOr(charges[p], DefaultRate))
                      ELSE rest

\* Format 2: timeOfUse + energyCharges
TimeOfUseCharges(rate_structure, hour, month) ==
    LET tou == rate_structure.timeOfUse
        charges == rate_structure.energyCharges
    IN  IF tou.kind = "absent" \/ charges.kind = "absent" THEN Fall
        ELSE LET months == IF tou.summer.kind = "dict" /\ tou.summer.months.present
                           THEN tou.summer.months.set
                           ELSE DefaultSummerMonths
                 cfg == IF month \in months THEN tou.summer ELSE tou.winter
             IN  IF cfg.kind = "absent" \/ charges.kind # "dict" THEN Fall
                 ELSE ScanTou(<<"onPeak", "midPeak", "offPeak">>, cfg, charges, hour)

\* Legacy format: simple periods at top level
FlatPeriods(rate_structure, hour, day_of_week) ==
    ScanPeriods(rate_structure.periods, hour, day_of_week, TRUE)

get_rate_from_structure(rate_structure, hour, day_of_week, month) ==
    LET f1 == SeasonalPeriods(rate_structure, hour, day_of_week, month)
    IN  IF f1.st # "fall" THEN f1
        ELSE LET f2 == TimeOfUseCharges(rate_structure, hour, month)
             IN  IF f2.st # "fall" THEN f2
                 ELSE LET f3 == FlatPeriods(rate_structure, hour, day_of_week)
                      IN  IF f3.st # "fall" THEN f3
                          ELSE Ret(DefaultRate)

\* price_record.get('lmp_kwh', price_record.get('lmp', 0) / 1000): $/MWh
\* divided by 1000 is $/kWh, the same number in mills per kWh
RecordPrice(price_record) ==
    GetOr(price_record.lmp_kwh, GetOr(price_record.lmp, 0))

RECURSIVE ScanCaiso(_, _)
\* "for price_record in caiso_pricing", inside the try block
ScanCaiso(dt, records) ==
    IF records = <<>> THEN Fall
    ELSE LET price_record == Head(records)
         IN  IF ~price_record.has_ts THEN Raise
             ELSE IF ~price_record.ts.ok THEN Raise
             ELSE IF TruncHour(price_record.ts) = TruncHour(dt)
                  THEN Ret(RecordPrice(price_record))
                  ELSE ScanCaiso(dt, Tail(records))

\* the try block over the realtime prices: a price, or control reaching the
\* TOU fallback because nothing matched ("fall") or the block raised ("raise")
CaisoLookup(timestamp, caiso) ==
    IF caiso = <<>> THEN Fall
    ELSE IF ~timestamp.ok THEN Raise
    ELSE ScanCaiso(timestamp, caiso)

\* get_rate_at_time with the try/except around the structure lookup left out
get_rate_at_time_unguarded(timestamp, pd, caiso) ==
    LET c == CaisoLookup(timestamp, caiso)
    IN  IF c.st = "ret" THEN c
        ELSE IF pd.kind # "dict" THEN Ret(DefaultRate)
        ELSE IF pd.rate_structure.kind # "dict"
             THEN Ret(GetOr(pd.off_peak_rate, DefaultRate))
        ELSE IF ~timestamp.ok THEN Ret(DefaultRate)
        ELSE get_rate_from_structure(pd.rate_structure, HourOf(timestamp),
                 WeekdayOf(timestamp), MonthOf(timestamp))

get_rate_at_time(timestamp, pd, caiso) ==
    LET c == CaisoLookup(timestamp, caiso)
    IN  IF c.st = "ret" THEN c
        ELSE IF pd.kind # "dict" THEN Ret(DefaultRate)
        ELSE IF pd.rate_structure.kind # "dict"
             THEN Ret(GetOr(pd.off_peak_rate, DefaultRate))
        ELSE IF ~timestamp.ok THEN Ret(DefaultRate)
        ELSE LET r == get_rate_from_structure(pd.rate_structure,
                          HourOf(timestamp), WeekdayOf(timestamp),
                          MonthOf(timestamp))
             IN  IF r.st = "raise" THEN Ret(DefaultRate) ELSE r

\* the rate calculate_electricity_cost multiplies the consumption by
cost_rate(timestamp, pd, caiso) ==
    LET c == CaisoLookup(timestamp, caiso)
    IN  IF c.st = "ret" THEN c
        ELSE IF pd.kind # "dict" THEN Ret(DefaultRate)
        ELSE IF pd.rate_structure.kind # "dict"
             THEN Ret(GetOr(pd.off_peak_rate, DefaultRate))
        ELSE IF ~timestamp.ok THEN Ret(DefaultRate)
        ELSE get_rate_from_structure(pd.rate_structure, HourOf(timestamp),
                 WeekdayOf(timestamp), MonthOf(timestamp))

\* cost in mills of consumption_kwh
calculate_electricity_cost(consumption_kwh, timestamp, pd, caiso) ==
    LET r == cost_rate(timestamp, pd, caiso)
    IN  IF r.st = "raise" THEN Raise ELSE Ret(consumption_kwh * r.val)

----------------------------------------------------------------------------
(* Program constants of the generators *)

\* default carbon intensity of an unmatched consumption point, gCO2/kWh
DefaultCarbon == 40
\* score = 0.3 * cons_norm + 0.7 * carbon_norm, in tenths
ConsWeight == 3
CarbonWeight == 7
\* nominal flexible load, kWh
EstimatedLoad == 50
\* confidence of a load shift: min(95, 70 + int(reduction_pct))
LoadShiftBaseConfidence == 70
LoadShiftMaxConfidence == 95
\* np.percentile(values, 75)
PeakPercentile == 75
PeakConfidence == 85
\* reduction_target_pct
ReductionTargetPct == 15
DemandConfidence == 90
\* a hot hour is above 32 C, a heatwave has 3 of them, cooling load grows
\* from 25 C
HotTemperature == 32
HeatwaveHours == 3
BaselineTemperature == 25
WeatherConfidence == 85
\* more than 20% above the baseline
EfficiencyThresholdPct == 20
EfficiencyConfidence == 75
\* weather points needed for a pre-cool, hours of the rate scan, hours of the
\* consumption average, the spread threshold in percent
PrecoolMinWeather == 8
RateScanHours == 24
HvacAverageHours == 8
PriceSpreadPct == 40
HvacConfidence == 80
\* overnight is 22:00 .. 06:59, the day rate without daytime points is 0.20
OvernightFrom == 22
OvernightTo == 6
DefaultDaytimeRate == 200
\* 50 kWh per vehicle, at least 5 $ of savings
EvChargeKwh == 50
EvMinSavingsCents == 500
EvConfidence == 90
\* recommendations[:5]
TopN == 5
\* confidence labels
HighConfidence == 85
MediumConfidence == 70

----------------------------------------------------------------------------
(* Sequences *)

RECURSIVE SumSeq(_)
SumSeq(s) == IF s = <<>> THEN 0 ELSE Head(s) + SumSeq(Tail(s))

\* s[:n]
Take(s, n) == SubSeq(s, 1, IF Len(s) < n THEN Len(s) ELSE n)

\* [x for x in s if Keep(x)]
Filter(s, Keep(_)) == SelectSeq(s, Keep)

MaxOf(s) == CHOOSE x \in {s[i] : i \in 1..Len(s)} : \A j \in 1..Len(s) : s[j] <= x
\* the greatest rate taken where the least is meant
GreatestOf(s) == MaxOf(s)

MinOf(s) == CHOOSE x \in {s[i] : i \in 1..Len(s)} : \A j \in 1..Len(s) : x <= s[j]

\* index of the first least / last greatest element: min(s, key), and
\* sorted(s, key)[0] and sorted(s, key)[-1] of a stable sort
LastMinIndex(s) == CHOOSE i \in 1..Len(s) :
    /\ \A j \in 1..Len(s) : s[i] <= s[j]
    /\ \A j \in (i + 1)..Len(s) : s[j] > s[i]
FirstMinIndex(s) == CHOOSE i \in 1..Len(s) :
    /\ \A j \in 1..Len(s) : s[i] <= s[j]
    /\ \A j \in 1..(i - 1) : s[j] > s[i]
FirstMaxIndex(s) == CHOOSE i \in 1..Len(s) :
    /\ \A j \in 1..Len(s) : s[j] <= s[i]
    /\ \A j \in 1..(i - 1) : s[j] < s[i]
LastMaxIndex(s) == CHOOSE i \in 1..Len(s) :
    /\ \A j \in 1..Len(s) : s[j] <= s[i]
    /\ \A j \in (i + 1)..Len(s) : s[j] < s[i]

RECURSIVE InsertAsc(_, _)
InsertAsc(x, s) ==
    IF s = <<>> THEN <<x>>
    ELSE IF x <= Head(s) THEN <<x>> \o s
    ELSE <<Head(s)>> \o InsertAsc(x, Tail(s))

RECURSIVE SortAsc(_)
\* the sorted copy np.percentile works on
SortAsc(s) == IF s = <<>> THEN <<>> ELSE InsertAsc(Head(s), SortAsc(Tail(s)))

----------------------------------------------------------------------------
(* Recommendations *)

NoExplanation ==
    [present |-> FALSE, confidence_label |-> "", best_case |-> 0,
     expected |-> 0, worst_case |-> 0]

\* a recommendation dict; gen stands for type, headline and action_type;
\* passes counts the _add_explanation passes over the dict
Rec(gen, cost_savings, co2_reduction, confidence, start) ==
    [gen |-> gen, cost_savings |-> cost_savings,
     co2_reduction |-> co2_reduction, confidence |-> confidence,
     recommended_time_start |-> start, explanation |-> NoExplanation,
     passes |-> 0]

NoRec == Rec("none", 0, 0, 0, BadTs)

\* the recommendation dicts a generator can build
Recs(gen, cost_savings, co2_reduction, confidence, start) ==
    {Rec(gen, c, o, f, start) :
        c \in cost_savings, o \in co2_reduction, f \in confidence}

\* the outcome of a generator: a recommendation, None, or an exception
RetRec(r) == [st |-> "ret", rec |-> r]
Returns(recs) == {RetRec(r) : r \in recs}
RetNone == [st |-> "ret", rec |-> NoRec]
RaiseRec == [st |-> "raise", rec |-> NoRec]

\* the mapping with "confidence_score > 85" and "> 70" for ">="
confidence_label_strict(confidence_score) ==
    IF confidence_score > HighConfidence THEN "high"
    ELSE IF confidence_score > MediumConfidence THEN "medium"
    ELSE "low"

\* "Map numeric confidence to label"
confidence_label(confidence_score) ==
    IF confidence_score >= HighConfidence THEN "high"
    ELSE IF confidence_score >= MediumConfidence THEN "medium"
    ELSE "low"

\* the default of the parameter: savings_uncertainty = 0.15
DefaultUncertaintyPct == 15

\* the range computed with the default uncertainty, whatever was passed
savings_range_default(cost_savings, uncertainty_pct) ==
    {[best_case |-> best, worst_case |-> worst] :
        best \in Round(cost_savings * (100 + DefaultUncertaintyPct), 100),
        worst \in Round(cost_savings * (100 - DefaultUncertaintyPct), 100)}

\* round(cost_savings * (1 +- savings_uncertainty), 2); savings_uncertainty
\* is given in percent
savings_range(cost_savings, uncertainty_pct) ==
    {[best_case |-> best, worst_case |-> worst] :
        best \in Round(cost_savings * (100 + uncertainty_pct), 100),
        worst \in Round(cost_savings * (100 - uncertainty_pct), 100)}

add_explanation(recommendation, uncertainty_pct) ==
    LET cost_savings == recommendation.cost_savings
        confidence_score == recommendation.confidence
    IN  {[recommendation EXCEPT
            !.explanation =
                [present |-> TRUE,
                 confidence_label |-> confidence_label(confidence_score),
                 best_case |-> range.best_case,
                 expected |-> cost_savings,
                 worst_case |-> range.worst_case],
            !.passes = @ + 1] :
         range \in savings_range(cost_savings, uncertainty_pct)}

\* "return self._add_explanation(recommendation, ...)" at the end of a generator
ReturnsExplained(recs, uncertainty_pct) ==
    Returns(UNION {add_explanation(r, uncertainty_pct) : r \in recs})

----------------------------------------------------------------------------
(* Generators *)

PredictedValues(cf) == [i \in 1..Len(cf) |-> cf[i].predicted_value]
CarbonValuesOf(carbon) == [i \in 1..Len(carbon) |-> carbon[i].carbon_intensity]

\* next((c['carbon_intensity'] for c in carbon_forecast
\*       if c['timestamp'] == timestamp), 40)
MatchingCarbon(timestamp, carbon) ==
    LET hits == {i \in 1..Len(carbon) : carbon[i].timestamp = timestamp}
    IN  IF hits = {} THEN DefaultCarbon
        ELSE carbon[CHOOSE i \in hits : \A j \in hits : i <= j].carbon_intensity

\* the costs in mills of kwh at every point of the series, or a raise
CostsAt(kwh, stamps, pd, caiso) ==
    LET costs == [i \in 1..Len(stamps) |->
                    calculate_electricity_cost(kwh, stamps[i], pd, caiso)]
    IN  IF \E i \in 1..Len(stamps) : costs[i].st = "raise" THEN Raise
        ELSE Ret(SumSeq([i \in 1..Len(stamps) |-> costs[i].val]))

RatesAt(stamps, pd, caiso) ==
    [i \in 1..Len(stamps) |-> get_rate_at_time(stamps[i], pd, caiso).val]

Stamps(series) == [i \in 1..Len(series) |-> series[i].timestamp]

\* 70 + int(potential_reduction_pct), without the cap
load_shift_confidence_uncapped(reduction_num, reduction_den) ==
    {LoadShiftBaseConfidence + pct :
        pct \in IntTrunc(100 * reduction_num, reduction_den)}

\* min(95, 70 + int(potential_reduction_pct))
load_shift_confidence(reduction_num, reduction_den) ==
    {IF LoadShiftBaseConfidence + pct < LoadShiftMaxConfidence
     THEN LoadShiftBaseConfidence + pct ELSE LoadShiftMaxConfidence :
        pct \in IntTrunc(100 * reduction_num, reduction_den)}

\* the combined scores of the windows, each times
\* 10 * max consumption * max carbon intensity: 0.3 * cons_norm + 0.7 * carbon_norm
combined_scores(cf, carbon) ==
    LET max_cons == MaxOf(PredictedValues(cf))
        max_carbon == MaxOf(CarbonValuesOf(carbon))
    IN  [i \in 1..Len(cf) |->
            ConsWeight * cf[i].predicted_value * max_carbon
            + CarbonWeight * MatchingCarbon(cf[i].timestamp, carbon) * max_cons]

generate_load_shift_recommendation(cf, carbon, pd, caiso) ==
    IF cf = <<>> THEN {RaiseRec}
    ELSE IF carbon = <<>> THEN {RaiseRec}
    ELSE
    LET n == Len(cf)
        max_cons == MaxOf(PredictedValues(cf))
        max_carbon == MaxOf(CarbonValuesOf(carbon))
        ci == [i \in 1..n |-> MatchingCarbon(cf[i].timestamp, carbon)]
        score == combined_scores(cf, carbon)
        best == FirstMinIndex(score)
        total == SumSeq(score)
        costs == CostsAt(EstimatedLoad, Stamps(cf), pd, caiso)
        best_cost == calculate_electricity_cost(EstimatedLoad, cf[best].timestamp, pd, caiso)
    IN  IF max_cons = 0 \/ max_carbon = 0 THEN {RaiseRec}
        ELSE IF total = 0 THEN {RaiseRec}
        ELSE IF costs.st = "raise" \/ best_cost.st = "raise" THEN {RaiseRec}
        ELSE IF ~cf[best].timestamp.ok THEN {RaiseRec}
        ELSE Returns(Recs("load_shift",
                 Round(costs.val - n * best_cost.val, 10 * n),
                 Round(EstimatedLoad * (SumSeq(ci) - n * ci[best]), 10 * n),
                 load_shift_confidence(total - n * score[best], total),
                 cf[best].timestamp))

\* 100 * np.percentile(values, 75), linear interpolation between the order
\* statistics around position 0.75 * (n - 1)
PeakThreshold100(values) ==
    LET v == SortAsc(values)
        pos == PeakPercentile * (Len(v) - 1)
        lo == pos \div 100
        rem == pos % 100
    IN  IF rem = 0 THEN 100 * v[lo + 1]
        ELSE 100 * v[lo + 1] + rem * (v[lo + 2] - v[lo + 1])

generate_peak_avoidance_recommendation(cf, pd, caiso) ==
    LET threshold == PeakThreshold100(PredictedValues(cf))
        IsPeak(f) == 100 * f.predicted_value >= threshold
        peak_periods == Filter(cf, IsPeak)
        k == Len(peak_periods)
        peak_sum == SumSeq(PredictedValues(peak_periods))
        \* reducible_load = peak_sum / (5 k); costs are taken of peak_sum
        costs == CostsAt(peak_sum, Stamps(peak_periods), pd, caiso)
        min_rate == MinOf(RatesAt(Stamps(cf), pd, caiso))
    IN  IF k = 0 THEN {RetNone}
        ELSE IF costs.st = "raise" THEN {RaiseRec}
        ELSE IF ~peak_periods[1].timestamp.ok THEN {RaiseRec}
        ELSE Returns(Recs("peak_avoidance",
                 Round(costs.val - peak_sum * min_rate * k, 50 * k),
                 Round(4 * peak_sum, 5 * k),
                 {PeakConfidence},
                 peak_periods[1].timestamp))

\* demand_charge is in $/kW, demand_threshold in kW
generate_demand_charge_avoidance(cf, pd) ==
    \* if not pricing_data or not isinstance(pricing_data, dict)
    IF pd.kind \in {"none", "nondict", "empty"} THEN {RetNone}
    ELSE IF pd.demand_charge = Absent THEN {RetNone}
    ELSE IF pd.demand_charge[1] <= 0 THEN {RetNone}
    ELSE IF cf = <<>> THEN {RaiseRec}
    ELSE
    LET peak == FirstMaxIndex(PredictedValues(cf))
        peak_kw == cf[peak].predicted_value
    IN  \* peak_kw <= None is a TypeError
        IF pd.demand_threshold = NoneValue THEN {RaiseRec}
        ELSE IF peak_kw <= GetOr(pd.demand_threshold, 0) THEN {RetNone}
        ELSE IF ~cf[peak].timestamp.ok THEN {RaiseRec}
        ELSE Returns(Recs("demand_charge",
                 {peak_kw * ReductionTargetPct * pd.demand_charge[1]},
                 {0},
                 {DemandConfidence},
                 AddMinutes(cf[peak].timestamp, -30)))

generate_weather_alert(weather, cf, pd, caiso) ==
    IF weather = <<>> THEN {RetNone}
    ELSE
    LET IsHot(w) == GetOr(w.temperature, 0) > HotTemperature
        hot_periods == Filter(weather, IsHot)
        k == Len(hot_periods)
        temp_sum == SumSeq([i \in 1..k |-> hot_periods[i].temperature[1]])
        head == Take(cf, k)
        m == Len(head)
        \* increased_consumption * duration_hours
        \*   = cons_sum * (temp_sum - 25 k) / (100 m)
        cons_sum == SumSeq(PredictedValues(head))
        extra == cons_sum * (temp_sum - BaselineTemperature * k)
        additional_cost == calculate_electricity_cost(extra,
                               hot_periods[1].timestamp, pd, caiso)
    IN  IF k < HeatwaveHours THEN {RetNone}
        ELSE IF additional_cost.st = "raise" THEN {RaiseRec}
        ELSE IF ~hot_periods[1].timestamp.ok \/ ~hot_periods[k].timestamp.ok
             THEN {RaiseRec}
        ELSE ReturnsExplained(
                 Recs("weather_alert",
                     Round(3 * additional_cost.val, 10000 * m),
                     Round(12 * extra, 1000 * m * k),
                     {WeatherConfidence},
                     AddHours(hot_periods[1].timestamp, -8)),
                 20)

\* datetime.now() of the call
Now == Ts(0, 0)

\* the test with "increase_pct >= 20" for "increase_pct > 20"
increase_reaches_threshold(excess, n, b) ==
    IF b = 0 THEN excess > 0
    ELSE IF b > 0 THEN 100 * excess >= EfficiencyThresholdPct * n * b
    ELSE 100 * excess <= EfficiencyThresholdPct * n * b

\* increase_pct > 20, where increase_pct = excess / (n * b) * 100; a zero
\* baseline divides a numpy float: inf when the excess is positive, nan (no
\* alert) when it is zero
increase_over_threshold(excess, n, b) ==
    IF b = 0 THEN excess > 0
    ELSE IF b > 0 THEN 100 * excess > EfficiencyThresholdPct * n * b
    ELSE 100 * excess < EfficiencyThresholdPct * n * b

generate_efficiency_alert(cf, baseline) ==
    IF cf = <<>> \/ baseline = Absent THEN {RetNone}
    ELSE
    LET n == Len(cf)
        b == baseline[1]
        excess == SumSeq(PredictedValues(cf)) - n * b
        alert == increase_over_threshold(excess, n, b)
    IN  IF ~alert THEN {RetNone}
        ELSE ReturnsExplained(
                 Recs("efficiency_alert",
                     \* excess * 24 * 30 kWh a month, at 0.12 $ = 12 cents
                     Round(excess * 24 * 30 * 12, n),
                     \* 0.04 kg = 4 hundredths of a kg per kWh
                     Round(excess * 24 * 30 * 4, n),
                     {EfficiencyConfidence},
                     Now),
                 25)

generate_hvac_precool_recommendation(cf, weather, pd, caiso) ==
    IF Len(weather) < PrecoolMinWeather THEN {RetNone}
    ELSE IF cf = <<>> THEN {RetNone}
    ELSE
    LET day == Take(cf, RateScanHours)
        all_rates == RatesAt(Stamps(day), pd, caiso)
        cheapest == FirstMinIndex(all_rates)
        most_expensive == LastMaxIndex(all_rates)
        lo == all_rates[cheapest]
        hi == all_rates[most_expensive]
        head == Take(cf, HvacAverageHours)
        m == Len(head)
        cons_sum == SumSeq(PredictedValues(head))
        \* hvac_load = 0.4 * cons_sum / m; 0.4 * 4 = 1.6 and 0.4 * 2 * 1.2 = 0.96
        normal_cost == calculate_electricity_cost(160 * cons_sum,
                           day[most_expensive].timestamp, pd, caiso)
        precool_cost == calculate_electricity_cost(96 * cons_sum,
                            day[cheapest].timestamp, pd, caiso)
        \* savings in mills * 100 * m
        savings == normal_cost.val - precool_cost.val
    IN  IF hi = 0 THEN {RaiseRec}
        ELSE IF hi < 0 \/ 100 * (hi - lo) < PriceSpreadPct * hi THEN {RetNone}
        ELSE IF normal_cost.st = "raise" \/ precool_cost.st = "raise" THEN {RaiseRec}
        ELSE IF savings <= 100000 * m THEN {RetNone}
        ELSE IF ~day[cheapest].timestamp.ok \/ ~day[most_expensive].timestamp.ok
             THEN {RaiseRec}
        ELSE ReturnsExplained(
                 Recs("hvac_precool",
                     Round(savings, 1000 * m),
                     Round(32 * cons_sum, 100 * m),
                     {HvacConfidence},
                     day[cheapest].timestamp),
                 20)

generate_ev_charging_recommendation(cf, pd, caiso, fleet) ==
    IF fleet = 0 THEN {RetNone}
    ELSE
    LET day == Take(cf, RateScanHours)
        IsOvernight(fc) == OvernightFrom <= HourOf(fc.timestamp)
                           \/ HourOf(fc.timestamp) <= OvernightTo
        IsDaytime(fc) == OvernightTo < HourOf(fc.timestamp)
                         /\ HourOf(fc.timestamp) < OvernightFrom
        overnight_periods == Filter(day, IsOvernight)
        night_rates == RatesAt(Stamps(overnight_periods), pd, caiso)
        cheapest == FirstMinIndex(night_rates)
        daytime_periods == Filter(day, IsDaytime)
        k == IF daytime_periods = <<>> THEN 1 ELSE Len(daytime_periods)
        day_rate_sum == IF daytime_periods = <<>> THEN DefaultDaytimeRate
                        ELSE SumSeq(RatesAt(Stamps(daytime_periods), pd, caiso))
        \* savings in cents * k
        savings == 5 * fleet * EvChargeKwh
                     * (day_rate_sum - k * night_rates[cheapest])
    IN  IF \E i \in 1..Len(day) : ~day[i].timestamp.ok THEN {RaiseRec}
        ELSE IF overnight_periods = <<>> THEN {RetNone}
        ELSE IF savings < EvMinSavingsCents * 50 * k THEN {RetNone}
        ELSE ReturnsExplained(
                 Recs("ev_charging",
                     Round(savings, 50 * k),
                     {0},
                     {EvConfidence},
                     overnight_periods[cheapest].timestamp),
                 10)

----------------------------------------------------------------------------
(* Inputs of the resolver calls *)

RECURSIVE SeqsUpTo(_, _)
\* the sequences over S of length at most n
SeqsUpTo(S, n) ==
    IF n = 0 THEN {<<>>}
    ELSE LET shorter == SeqsUpTo(S, n - 1)
         IN  shorter \cup {Append(q, x) : q \in shorter, x \in S}

\* Mon 1 Jan 07:00, 18:00, 23:30; Sat 6 Jan 03:00, 10:00; Wed 15 May 12:00;
\* Mon 3 Jun 12:00
QueryTimes ==
    {BadTs, Ts(7, 0), Ts(18, 0), Ts(23, 30), Ts(123, 0), Ts(130, 0),
     Ts(3252, 0), Ts(3708, 0)}

CaisoRecords ==
    {CaisoRecord(TRUE, Ts(7, 0), Some(50), Some(50)),
     CaisoRecord(TRUE, Ts(7, 30), Absent, Some(90)),
     CaisoRecord(TRUE, Ts(18, 0), Absent, Absent),
     CaisoRecord(TRUE, Ts(23, 0), Some(-20), Some(-20)),
     CaisoRecord(TRUE, BadTs, Some(70), Some(70)),
     CaisoRecord(FALSE, BadTs, Some(70), Some(70))}

CaisoLists == SeqsUpTo(CaisoRecords, MaxCaiso)

OffPeakPeriod == Period(Some(80), Hours(<<<<0, 7>>, <<19, 24>>>>), Days(AllDays))
OnPeakPeriod == Period(Some(180), Hours(<<<<7, 19>>>>), Days({0, 1, 2, 3, 4}))
NightPeriod == Period(Some(60), Hours(<<<<19, 7>>>>), NoDays)
ZeroRatePeriod == Period(Some(0), Hours(<<<<10, 12>>>>), NoDays)
BadHoursPeriod == Period(Some(150), Hours(<<<<20, 22>>, <<5>>>>), NoDays)
NoRatePeriod == Period(Absent, Hours(<<<<0, 12>>>>), NoDays)
SummerPeakPeriod == Period(Some(300), Hours(<<<<12, 18>>>>), NoDays)
SummerBasePeriod == Period(Some(110), Hours(<<<<0, 24>>>>), NoDays)
WinterPeakPeriod == Period(Some(220), Hours(<<<<17, 20>>>>), Days({0, 1, 2, 3, 4}))

PeriodChoices == {OffPeakPeriod, OnPeakPeriod, NightPeriod, ZeroRatePeriod, BadHoursPeriod}

SeasonsChoices ==
    {NoSeasons,
     Seasons(Season(NoMonths, Periods(<<SummerPeakPeriod>>)),
             Season(NoMonths, Periods(<<NonDictPeriod, NoRatePeriod>>))),
     Seasons(Season(Months({6, 7}),
                    Periods(<<SummerPeakPeriod, SummerBasePeriod>>)),
             Season(NoMonths,
                    Periods(<<NonDictPeriod, WinterPeakPeriod, NightPeriod>>))),
     Seasons(NumberSeason, NoSeason)}

TouChoice(tou, charges) == [tou |-> tou, charges |-> charges]
TouA ==
    Tou(TouSeason(Months({6, 7}), Hours(<<<<12, 18>>>>),
                  Hours(<<<<7, 12>>, <<18, 22>>>>), Hours(<<<<22, 7>>>>)),
        TouSeason(NoMonths, Hours(<<<<17, 20>>>>), NoHours, Hours(<<<<0, 22>>>>)))
TouChoices ==
    {TouChoice(NoTou, NoCharges),
     TouChoice(TouA, Charges(Some(250), Absent, Some(70))),
     TouChoice(TouA, NumberCharges)}

RateStructures ==
    {RateStructure(s, t.tou, t.charges, p) :
        s \in SeasonsChoices, t \in TouChoices,
        p \in SeqsUpTo(PeriodChoices, MaxPeriods)}
    \cup {NoRateStructure, NonDictRateStructure}

PricingProfiles ==
    {PricingDict(rs, o, Absent, Absent) :
        rs \in RateStructures, o \in {Absent, Some(95)}}
    \cup {NoPricing, EmptyPricing, NonDictPricing}

\* the flat-periods tariff of the specification's scenario
ScenarioTariff == RateStructure(NoSeasons, NoTou, NoCharges, <<OffPeakPeriod, OnPeakPeriod>>)

FewPricingProfiles ==
    {EmptyPricing,
     PricingDict(NoRateStructure, Some(95), Absent, Absent),
     PricingDict(ScenarioTariff, Some(95), Absent, Absent),
     PricingDict(RateStructure(NoSeasons, NoTou, NoCharges, <<BadHoursPeriod>>),
                 Absent, Absent, Absent)}

FewCaisoLists ==
    {<<>>,
     <<CaisoRecord(TRUE, Ts(7, 0), Some(50), Some(50))>>,
     <<CaisoRecord(TRUE, BadTs, Some(70), Some(70)),
       CaisoRecord(TRUE, Ts(18, 0), Some(40), Some(40))>>}

NotCalled == [st |-> "none", val |-> 0]

----------------------------------------------------------------------------
(* The orchestrator's state while the resolver is called on its own *)

\* the blocks of generate_recommendations, in program order
Generators ==
    <<"load_shift", "peak_avoidance", "demand_charge", "weather_alert",
      "efficiency_alert", "hvac_precool", "ev_charging">>

GeneratorSet == {Generators[i] : i \in 1..Len(Generators)}

\* no generator has returned yet
NotBuilt == [g \in GeneratorSet |-> NoRec]

EngineIdle ==
    /\ consumption_forecast = <<>>
    /\ carbon_forecast = <<>>
    /\ weather_forecast = <<>>
    /\ historical_baseline = Absent
    /\ ev_fleet_size = 0
    /\ pc = "idle"
    /\ recommendations = <<>>
    /\ invoked = {}
    /\ raised = {}
    /\ built = NotBuilt
    /\ propagated = FALSE

\* the weather forecast cache keys (locations rounded to 2 decimal places)
Locations == {"43.65_-79.38", "37.77_-122.42"}

\* no request has been handled
HttpIdle ==
    /\ measurements = 0
    /\ endpoint = "none"
    /\ fetched = FALSE
    /\ http_status = 0
    /\ trained = FALSE
    /\ generated = FALSE
    /\ step = "none"
    /\ weather_forecasts = <<>>

\* no get_weather_forecast call was made yet
NoCall == [self |-> 0, cache_key |-> "none"]

\* the WeatherService class as loaded: empty cache, no instance
WeatherIdle ==
    /\ today = 0
    /\ cache = [k \in Locations |-> "absent"]
    /\ instances = <<>>
    /\ outbound = 0
    /\ returned = "none"
    /\ last_call = NoCall

PeriodIdle ==
    /\ p_hour = 0
    /\ p_day = 0
    /\ p_config = NonDictPeriod
    /\ p_result = "none"

----------------------------------------------------------------------------
(* Specification of the resolver and the cost estimator: one call of each  *)
(* on the same timestamp, tariff and realtime prices.                      *)

InitRate ==
    /\ q_timestamp \in QueryTimes
    /\ \/ pricing_data \in PricingProfiles /\ caiso_pricing \in FewCaisoLists
       \/ pricing_data \in FewPricingProfiles /\ caiso_pricing \in CaisoLists
    /\ q_kwh = 0
    /\ rate_result = NotCalled
    /\ cost_result = NotCalled
    /\ EngineIdle
    /\ HttpIdle /\ WeatherIdle /\ PeriodIdle

GetRate ==
    /\ rate_result = NotCalled
    /\ rate_result' = get_rate_at_time(q_timestamp, pricing_data, caiso_pricing)
    /\ UNCHANGED <<pricing_data, caiso_pricing, q_timestamp, q_kwh, cost_result>>
    /\ UNCHANGED engineVars
    /\ UNCHANGED serviceVars

CalcCost ==
    /\ cost_result = NotCalled
    /\ \E kwh \in 1..MaxKwh :
        /\ q_kwh' = kwh
        /\ cost_result' = calculate_electricity_cost(kwh, q_timestamp,
                              pricing_data, caiso_pricing)
    /\ UNCHANGED <<pricing_data, caiso_pricing, q_timestamp, rate_result>>
    /\ UNCHANGED engineVars
    /\ UNCHANGED serviceVars

NextRate == GetRate \/ CalcCost

SpecRate == InitRate /\ [][NextRate]_vars

----------------------------------------------------------------------------
(* Orchestrator *)

RECURSIVE InsertDesc(_, _)
InsertDesc(x, s) ==
    IF s = <<>> THEN <<x>>
    ELSE IF x.cost_savings >= Head(s).cost_savings THEN <<x>> \o s
    ELSE <<Head(s)>> \o InsertDesc(x, Tail(s))

RECURSIVE SortByCostSavingsDesc(_)
\* list.sort(key=cost_savings, reverse=True): stable, equal keys keep their
\* order
SortByCostSavingsDesc(s) ==
    IF s = <<>> THEN <<>>
    ELSE InsertDesc(Head(s), SortByCostSavingsDesc(Tail(s)))

\* the first five, then sorted
truncate_and_sort(recs) == SortByCostSavingsDesc(Take(recs, TopN))

\* recommendations.sort(...); return recommendations[:5]
sort_and_truncate(recs) == Take(SortByCostSavingsDesc(recs), TopN)

\* a block without its except clause: the exception leaves the block
try_generator_unguarded(recs, result, explain, uncertainty_pct) ==
    IF result.st = "ret" /\ result.rec # NoRec
    THEN {[recommendations |-> Append(recs, r),
           caught |-> FALSE,
           propagated |-> FALSE] :
          r \in IF explain THEN add_explanation(result.rec, uncertainty_pct)
                ELSE {result.rec}}
    ELSE {[recommendations |-> recs,
           caught |-> FALSE,
           propagated |-> result.st = "raise"]}

\* a block that explains whatever the generator returned
try_generator_explaining_all(recs, result, explain, uncertainty_pct) ==
    IF result.st = "ret" /\ result.rec # NoRec
    THEN {[recommendations |-> Append(recs, r),
           caught |-> FALSE,
           propagated |-> FALSE] :
          r \in add_explanation(result.rec, uncertainty_pct)}
    ELSE {[recommendations |-> recs,
           caught |-> result.st = "raise",
           propagated |-> FALSE]}

\* one try/except block of generate_recommendations around a generator's
\* result: the list after the block, whether an exception was caught and
\* logged, and whether one left the block
try_generator(recs, result, explain, uncertainty_pct) ==
    IF result.st = "ret" /\ result.rec # NoRec
    THEN {[recommendations |-> Append(recs, r),
           caught |-> FALSE,
           propagated |-> FALSE] :
          r \in IF explain THEN add_explanation(result.rec, uncertainty_pct)
                ELSE {result.rec}}
    ELSE {[recommendations |-> recs,
           caught |-> result.st = "raise",
           propagated |-> FALSE]}

inputVars == <<pricing_data, caiso_pricing, consumption_forecast,
               carbon_forecast, weather_forecast, historical_baseline,
               ev_fleet_size>>

\* the generator block g of generate_recommendations; supplied is the "if"
\* guarding the block, outcomes what the generator's call can yield
RunBlock(g, next, supplied, outcomes, explain, uncertainty_pct) ==
    /\ pc = g
    /\ IF supplied
       THEN \E result \in outcomes :
            \E out \in try_generator(recommendations, result, explain,
                                     uncertainty_pct) :
                /\ invoked' = invoked \cup {g}
                /\ raised' = IF out.caught THEN raised \cup {g} ELSE raised
                /\ built' = [built EXCEPT ![g] = result.rec]
                /\ recommendations' = out.recommendations
                /\ propagated' = out.propagated
                /\ pc' = IF out.propagated THEN "aborted" ELSE next
       ELSE /\ pc' = next
            /\ UNCHANGED <<invoked, raised, built, recommendations, propagated>>
    /\ UNCHANGED inputVars
    /\ UNCHANGED rateVars
    /\ UNCHANGED serviceVars

LoadShift ==
    RunBlock("load_shift", "peak_avoidance", TRUE,
             generate_load_shift_recommendation(
                 consumption_forecast, carbon_forecast, pricing_data,
                 caiso_pricing),
             TRUE, 15)

PeakAvoidance ==
    RunBlock("peak_avoidance", "demand_charge", TRUE,
             generate_peak_avoidance_recommendation(
                 consumption_forecast, pricing_data, caiso_pricing),
             TRUE, 15)

DemandChargeAvoidance ==
    RunBlock("demand_charge", "weather_alert", TRUE,
             generate_demand_charge_avoidance(
                 consumption_forecast, pricing_data),
             TRUE, 10)

WeatherAlert ==
    RunBlock("weather_alert", "efficiency_alert", weather_forecast # <<>>,
             generate_weather_alert(
                 weather_forecast, consumption_forecast, pricing_data,
                 caiso_pricing),
             FALSE, 0)

EfficiencyAlert ==
    RunBlock("efficiency_alert", "hvac_precool", historical_baseline # Absent,
             generate_efficiency_alert(
                 consumption_forecast, historical_baseline),
             FALSE, 0)

HVACPrecool ==
    RunBlock("hvac_precool", "ev_charging", weather_forecast # <<>>,
             generate_hvac_precool_recommendation(
                 consumption_forecast, weather_forecast, pricing_data,
                 caiso_pricing),
             FALSE, 0)

EVCharging ==
    RunBlock("ev_charging", "sort", ev_fleet_size > 0,
             generate_ev_charging_recommendation(
                 consumption_forecast, pricing_data, caiso_pricing,
                 ev_fleet_size),
             FALSE, 0)

SortAndReturn ==
    /\ pc = "sort"
    /\ recommendations' = sort_and_truncate(recommendations)
    /\ pc' = "done"
    /\ UNCHANGED <<invoked, raised, built, propagated>>
    /\ UNCHANGED inputVars
    /\ UNCHANGED rateVars
    /\ UNCHANGED serviceVars

----------------------------------------------------------------------------
(* Inputs of generate_recommendations.  The consumption forecast is never  *)
(* empty and its timestamps parse: the forecaster returns hours_ahead >= 1 *)
(* points stamped with isoformat().                                        *)

\* longest consumption forecast
MaxPoints == 3
\* longest carbon forecast
MaxCarbon == 2

ConsValues == {0, 10, 40}
CarbonLevels == {0, 30, 90}

Consumption(start, values) ==
    [i \in 1..Len(values) |->
        [timestamp |-> AddHours(start, i - 1), predicted_value |-> values[i]]]
Carbon(start, values) ==
    [i \in 1..Len(values) |->
        [timestamp |-> AddHours(start, i - 1), carbon_intensity |-> values[i]]]
\* n hourly points from start, the first hot of them above 32 C
Weather(start, n, hot) ==
    [i \in 1..n |->
        [timestamp |-> AddHours(start, i - 1),
         temperature |-> Some(IF i <= hot THEN 33 + i ELSE 20)]]

\* Mon 1 Jan 05:00
Morning == Ts(5, 0)
\* Mon 1 Jan 21:00
Evening == Ts(21, 0)

ConsumptionChoices ==
    {Consumption(Morning, v) : v \in SeqsUpTo(ConsValues, MaxPoints) \ {<<>>}}
FewConsumptionChoices ==
    {Consumption(Morning, <<10, 40, 40>>), Consumption(Morning, <<40, 40, 10>>),
     Consumption(Morning, <<40>>), Consumption(Evening, <<10, 40, 40>>),
     Consumption(Morning, <<0, 0, 10>>)}

CarbonChoices ==
    {Carbon(Morning, v) : v \in SeqsUpTo(CarbonLevels, MaxCarbon)}
    \cup {Carbon(AddHours(Morning, 1), <<60>>)}
FewCarbonChoices == {<<>>, Carbon(Morning, <<30, 90>>)}

\* a day of hourly points from Mon 1 Jan 00:00 (forecast_hours = 24):
\* consumption rising from 10 to 33 kWh, carbon flat at 30 g/kWh
RampPoints == 24
RampConsumption == Consumption(Ts(0, 0), [i \in 1..RampPoints |-> 9 + i])
RampCarbon == Carbon(Ts(0, 0), [i \in 1..RampPoints |-> 30])

WeatherChoices ==
    {<<>>,
     Weather(Morning, HeatwaveHours, HeatwaveHours - 1),
     Weather(Morning, HeatwaveHours, HeatwaveHours),
     Weather(Morning, PrecoolMinWeather, 0),
     Weather(Morning, PrecoolMinWeather, HeatwaveHours),
     [Weather(Morning, PrecoolMinWeather, HeatwaveHours) EXCEPT ![1].timestamp = BadTs],
     [Weather(Morning, PrecoolMinWeather, HeatwaveHours) EXCEPT ![1].temperature = Absent]}

EnginePricing ==
    {EmptyPricing,
     PricingDict(ScenarioTariff, Absent, Absent, Absent),
     PricingDict(ScenarioTariff, Some(95), Some(10), Some(20)),
     PricingDict(NoRateStructure, Some(95), Some(10), Absent),
     PricingDict(RateStructure(NoSeasons, NoTou, NoCharges, <<NightPeriod>>),
                 Absent, Some(2), Some(40)),
     PricingDict(RateStructure(NoSeasons, NoTou, NoCharges, <<BadHoursPeriod>>),
                 Absent, Some(10), Absent),
     \* the row of fetch_electricity_pricing with demand_threshold NULL
     PricingDict(ScenarioTariff, Absent, Some(10), NoneValue)}

EngineCaiso ==
    {<<>>,
     <<CaisoRecord(TRUE, Ts(5, 0), Some(30), Some(30)),
       CaisoRecord(TRUE, Ts(6, 30), Absent, Some(200))>>,
     \* a record without a price, and a negative price
     <<CaisoRecord(TRUE, Ts(5, 0), Absent, Absent),
       CaisoRecord(TRUE, Ts(6, 0), Some(-20), Some(-20))>>}

\* the resolver's state while the orchestrator runs
RateIdle ==
    /\ q_timestamp = BadTs
    /\ q_kwh = 0
    /\ rate_result = NotCalled
    /\ cost_result = NotCalled

Init ==
    /\ pricing_data \in EnginePricing
    /\ \/ /\ consumption_forecast \in ConsumptionChoices
          /\ carbon_forecast \in CarbonChoices
          /\ caiso_pricing = <<>>
          /\ weather_forecast = <<>>
          /\ historical_baseline = Absent
          /\ ev_fleet_size = 0
       \/ /\ consumption_forecast \in FewConsumptionChoices
          /\ caiso_pricing \in EngineCaiso
          /\ carbon_forecast \in FewCarbonChoices
          /\ weather_forecast \in WeatherChoices
          /\ historical_baseline \in {Absent, Some(0), Some(5), Some(25), Some(30)}
          /\ ev_fleet_size \in {0, 1, 2}
       \/ /\ consumption_forecast = RampConsumption
          /\ carbon_forecast = RampCarbon
          /\ caiso_pricing = <<>>
          /\ weather_forecast = <<>>
          /\ historical_baseline = Absent
          /\ ev_fleet_size = 0
    /\ pc = "load_shift"
    /\ recommendations = <<>>
    /\ invoked = {}
    /\ raised = {}
    /\ built = NotBuilt
    /\ propagated = FALSE
    /\ RateIdle
    /\ HttpIdle /\ WeatherIdle /\ PeriodIdle

Next ==
    \/ LoadShift
    \/ PeakAvoidance
    \/ DemandChargeAvoidance
    \/ WeatherAlert
    \/ EfficiencyAlert
    \/ HVACPrecool
    \/ EVCharging
    \/ SortAndReturn

Spec == Init /\ [][Next]_vars

-----------------------------------------------------------------------------
(* HTTP routes: POST /api/forecast/consumption and                         *)
(* POST /api/recommend/generate.  A step is one request handled from the   *)
(* fetch of the measurements to the response.                              *)

\* the least number of measurements the routes train on
MinMeasurements == 48
\* the database holds up to MinMeasurements + MaxExtra measurements
MaxExtra == 2

\* neither the resolver nor the orchestrator is running
EngineAndRateIdle ==
    /\ pricing_data = NoPricing
    /\ caiso_pricing = <<>>
    /\ RateIdle
    /\ EngineIdle

\* what a handler leaves behind: the status of the response and the steps
\* it reached
Response(route, fetch, status, train, generate) ==
    /\ endpoint' = route
    /\ fetched' = fetch
    /\ http_status' = status
    /\ trained' = train
    /\ generated' = generate
    /\ UNCHANGED <<measurements, step, weather_forecasts>>
    /\ UNCHANGED <<pricing_data, caiso_pricing>>
    /\ UNCHANGED <<rateVars, engineVars, weatherVars, periodVars>>

\* POST /api/forecast/consumption.  The HTTPException(400) is raised inside
\* the try block whose only clause is "except Exception", which catches it
\* (HTTPException is a subclass of Exception) and raises HTTPException(500).
\* fetch_ok: fetch_measurements returns; train_ok: train and
\* get_forecast_dict return.
forecast_consumption ==
    \E fetch_ok, train_ok \in BOOLEAN :
        IF ~fetch_ok THEN Response("forecast", FALSE, 500, FALSE, FALSE)
        ELSE IF measurements < MinMeasurements
        THEN Response("forecast", TRUE, 500, FALSE, FALSE)
        ELSE IF ~train_ok THEN Response("forecast", TRUE, 500, TRUE, FALSE)
        ELSE Response("forecast", TRUE, 200, TRUE, FALSE)

\* POST /api/recommend/generate.  "except HTTPException: raise" lets the
\* 400 through; any other exception becomes a 500.  rest_ok: the steps
\* between training and the engine's call return (the saves and the fetches
\* that are not in a try block of their own); the engine's
\* generate_recommendations does not raise (see Spec).
generate_recommendations ==
    \E fetch_ok, train_ok, rest_ok \in BOOLEAN :
        IF ~fetch_ok THEN Response("recommend", FALSE, 500, FALSE, FALSE)
        ELSE IF measurements < MinMeasurements
        THEN Response("recommend", TRUE, 400, FALSE, FALSE)
        ELSE IF ~train_ok THEN Response("recommend", TRUE, 500, TRUE, FALSE)
        ELSE IF ~rest_ok THEN Response("recommend", TRUE, 500, TRUE, FALSE)
        ELSE Response("recommend", TRUE, 200, TRUE, TRUE)

InitHttp ==
    /\ measurements \in 0..(MinMeasurements + MaxExtra)
    /\ endpoint = "none"
    /\ fetched = FALSE
    /\ http_status = 0
    /\ trained = FALSE
    /\ generated = FALSE
    /\ step = "none"
    /\ weather_forecasts = <<>>
    /\ EngineAndRateIdle
    /\ WeatherIdle /\ PeriodIdle

NextHttp == forecast_consumption \/ generate_recommendations

SpecHttp == InitHttp /\ [][NextHttp]_vars

-----------------------------------------------------------------------------
(* POST /api/recommend/generate from the training to the response, with    *)
(* the engine's run in between.  step is the handler's position: "weather" *)
(* before the weather fetch, "engine" before the engine's call, "running"  *)
(* during it, "responded" after the response.                              *)

\* the weather_forecast argument of the engine's call with the fetched
\* forecasts passed
passed_weather_forecasts(fetched_forecasts) == fetched_forecasts

\* the weather_forecast argument of the engine's call: the call names
\* consumption_forecast, carbon_forecast, pricing_data and caiso_pricing
\* only, so the parameter takes its default None
engine_weather_argument(fetched_forecasts) == <<>>

\* pricing_data or {}: the row of fetch_electricity_pricing, a missing row
\* (None) passed as the empty dict
RoutePricing == EnginePricing

\* the weather fetch: a site without coordinates is skipped
fetch_weather ==
    /\ step = "weather"
    /\ \E has_coordinates \in BOOLEAN :
          IF has_coordinates
          THEN weather_forecasts' \in WeatherChoices \ {<<>>}
          ELSE weather_forecasts' = <<>>
    /\ step' = "engine"
    /\ UNCHANGED <<measurements, endpoint, fetched, http_status, trained,
                   generated>>
    /\ UNCHANGED <<pricing_data, caiso_pricing>>
    /\ UNCHANGED <<rateVars, engineVars, weatherVars, periodVars>>

\* engine.generate_recommendations(consumption_forecast=..., carbon_forecast=...,
\*     pricing_data=pricing_data or {}, caiso_pricing=... or None)
call_engine ==
    /\ step = "engine"
    /\ pc = "idle"
    /\ consumption_forecast' \in FewConsumptionChoices
    /\ carbon_forecast' \in FewCarbonChoices
    /\ pricing_data' \in RoutePricing
    /\ caiso_pricing' \in EngineCaiso
    /\ weather_forecast' = engine_weather_argument(weather_forecasts)
    /\ historical_baseline' = Absent
    /\ ev_fleet_size' = 0
    /\ pc' = "load_shift"
    /\ step' = "running"
    /\ UNCHANGED <<recommendations, invoked, raised, built, propagated>>
    /\ UNCHANGED <<measurements, endpoint, fetched, http_status, trained,
                   generated, weather_forecasts>>
    /\ UNCHANGED <<rateVars, weatherVars, periodVars>>

\* return RecommendationResponse(recommendations=recommendations, ...)
respond ==
    /\ step = "running"
    /\ pc = "done"
    /\ step' = "responded"
    /\ http_status' = 200
    /\ generated' = TRUE
    /\ UNCHANGED <<measurements, endpoint, fetched, trained, weather_forecasts>>
    /\ UNCHANGED <<pricing_data, caiso_pricing>>
    /\ UNCHANGED <<rateVars, engineVars, weatherVars, periodVars>>

\* the handler has fetched at least 48 measurements and trained
InitRoute ==
    /\ measurements \in MinMeasurements..(MinMeasurements + MaxExtra)
    /\ endpoint = "recommend"
    /\ fetched = TRUE
    /\ http_status = 0
    /\ trained = TRUE
    /\ generated = FALSE
    /\ step = "weather"
    /\ weather_forecasts = <<>>
    /\ EngineAndRateIdle
    /\ WeatherIdle /\ PeriodIdle

NextRoute ==
    \/ fetch_weather
    \/ call_engine
    \/ LoadShift
    \/ PeakAvoidance
    \/ DemandChargeAvoidance
    \/ WeatherAlert
    \/ EfficiencyAlert
    \/ HVACPrecool
    \/ EVCharging
    \/ SortAndReturn
    \/ respond

SpecRoute == InitRoute /\ [][NextRoute]_vars

-----------------------------------------------------------------------------
(* WeatherService.  cache is the class-level _cache with the age of each   *)
(* entry ("valid" while younger than cache_duration_hours); instances are  *)
(* the WeatherService objects of the process, each with the attributes it  *)
(* has assigned on itself; outbound counts the requests.get calls of the   *)
(* current day.                                                            *)

\* WEATHER_MAX_DAILY_CALLS
MaxDailyCalls == 2
\* most WeatherService objects created
MaxInstances == 2
\* most outbound requests in a day
MaxOutbound == 4
\* the days are 0..MaxDay
MaxDay == 1

\* the class attribute _api_call_count; the class attribute _api_call_date
\* is None (Absent).  No statement assigns either on the class.
class_api_call_count == 0

\* __init__: api_key is whether OPENWEATHER_API_KEY is configured; the
\* object has no _api_call_count and no _api_call_date of its own
WeatherService(api_key) ==
    [api_key |-> api_key, api_call_count |-> Absent, api_call_date |-> Absent]

\* self._api_call_count: the object's attribute, else the class's
ReadCallCount(self) == GetOr(self.api_call_count, class_api_call_count)

\* if self._api_call_date != today: self._api_call_count = 0;
\* self._api_call_date = today  -- both assignments bind on the object
ResetIfNewDay(self, day) ==
    IF self.api_call_date # Some(day)
    THEN [self EXCEPT !.api_call_count = Some(0), !.api_call_date = Some(day)]
    ELSE self

can_make_api_call(self, day) ==
    LET after == ResetIfNewDay(self, day)
    IN  [self |-> after, ok |-> ReadCallCount(after) < MaxDailyCalls]

increment_api_call_count(self, day) ==
    LET after == ResetIfNewDay(self, day)
    IN  [after EXCEPT !.api_call_count = Some(ReadCallCount(after) + 1)]

\* the test without the comparison of the entry's age
is_cache_present(cache_key) == cache[cache_key] # "absent"

is_cache_valid(cache_key) == cache[cache_key] = "valid"

\* the cached data whatever its age, else the mock forecast
CachedOrMock(cache_key) ==
    IF cache[cache_key] # "absent" THEN "cache" ELSE "mock"

\* WeatherService()
NewInstance ==
    /\ Len(instances) < MaxInstances
    /\ \E api_key \in BOOLEAN :
          instances' = Append(instances, WeatherService(api_key))
    /\ UNCHANGED <<today, cache, outbound, returned, last_call>>
    /\ UNCHANGED <<pricing_data, caiso_pricing>>
    /\ UNCHANGED <<rateVars, engineVars, httpVars, periodVars>>

\* get_weather_forecast on the object i for the location cache_key; api_ok
\* is whether the request and the parsing of its answer succeed
get_weather_forecast ==
    /\ \E i \in 1..Len(instances), cache_key \in Locations, api_ok \in BOOLEAN :
          LET self == instances[i]
              can == can_make_api_call(self, today)
          IN  /\ last_call' = [self |-> i, cache_key |-> cache_key]
              /\ IF ~self.api_key
                 THEN /\ returned' = "mock"
                      /\ UNCHANGED <<instances, cache, outbound>>
                 ELSE IF is_cache_valid(cache_key)
                 THEN /\ returned' = "cache"
                      /\ UNCHANGED <<instances, cache, outbound>>
                 ELSE IF ~can.ok
                 THEN /\ instances' = [instances EXCEPT ![i] = can.self]
                      /\ returned' = CachedOrMock(cache_key)
                      /\ UNCHANGED <<cache, outbound>>
                 ELSE /\ outbound < MaxOutbound
                      /\ outbound' = outbound + 1
                      /\ IF api_ok
                         THEN /\ cache' = [cache EXCEPT ![cache_key] = "valid"]
                              /\ instances' = [instances EXCEPT ![i] =
                                     increment_api_call_count(can.self, today)]
                              /\ returned' = "api"
                         ELSE /\ instances' = [instances EXCEPT ![i] = can.self]
                              /\ returned' = CachedOrMock(cache_key)
                              /\ UNCHANGED cache
    /\ UNCHANGED today
    /\ UNCHANGED <<pricing_data, caiso_pricing>>
    /\ UNCHANGED <<rateVars, engineVars, httpVars, periodVars>>

\* cache_duration_hours pass since the entry was stored
CacheExpires ==
    /\ \E cache_key \in Locations :
          /\ cache[cache_key] = "valid"
          /\ cache' = [cache EXCEPT ![cache_key] = "expired"]
    /\ UNCHANGED <<today, instances, outbound, returned, last_call>>
    /\ UNCHANGED <<pricing_data, caiso_pricing>>
    /\ UNCHANGED <<rateVars, engineVars, httpVars, periodVars>>

\* midnight: datetime.now().date() changes
NextDay ==
    /\ today < MaxDay
    /\ today' = today + 1
    /\ outbound' = 0
    /\ UNCHANGED <<cache, instances, returned, last_call>>
    /\ UNCHANGED <<pricing_data, caiso_pricing>>
    /\ UNCHANGED <<rateVars, engineVars, httpVars, periodVars>>

InitWeather ==
    /\ WeatherIdle
    /\ EngineAndRateIdle
    /\ HttpIdle /\ PeriodIdle

NextWeather == NewInstance \/ get_weather_forecast \/ CacheExpires \/ NextDay

SpecWeather == InitWeather /\ [][NextWeather]_vars

-----------------------------------------------------------------------------
(* _is_in_period called on its own *)

\* 'hours' values: missing, None, lists of ranges (one with a range that
\* does not unpack, one with an empty range, two that wrap around midnight)
HoursChoices ==
    {NoHours, NoneHours, Hours(<<>>),
     Hours(<<<<0, 7>>, <<19, 24>>>>),
     Hours(<<<<7, 19>>>>),
     Hours(<<<<19, 7>>>>),
     Hours(<<<<12, 18>>, <<22, 6>>>>),
     Hours(<<<<7, 7>>>>),
     Hours(<<<<20, 22>>, <<5>>>>)}

\* 'days' values: missing, every day, weekdays, weekend, none
DaysChoices ==
    {NoDays, Days(AllDays), Days({0, 1, 2, 3, 4}), Days({5, 6}), Days({})}

InitPeriod ==
    /\ p_hour \in 0..23
    /\ p_day \in AllDays
    /\ \E hours \in HoursChoices, days \in DaysChoices :
          p_config = Period(Some(DefaultRate), hours, days)
    /\ p_result = "none"
    /\ EngineAndRateIdle
    /\ HttpIdle /\ WeatherIdle

IsInPeriod ==
    /\ p_result = "none"
    /\ p_result' = is_in_period(p_hour, p_day, p_config)
    /\ UNCHANGED <<p_hour, p_day, p_config>>
    /\ UNCHANGED <<pricing_data, caiso_pricing>>
    /\ UNCHANGED <<rateVars, engineVars, httpVars, weatherVars>>

NextPeriod == IsInPeriod

SpecPeriod == InitPeriod /\ [][NextPeriod]_vars

----------------------------------------------------------------------------
(* Properties of the orchestrator (Spec) *)

Done == pc = "done"

\* the "if" guarding the block of generator g
Supplied(g) ==
    CASE g \in {"weather_alert", "hvac_precool"} -> weather_forecast # <<>>
      [] g = "efficiency_alert" -> historical_baseline # Absent
      [] g = "ev_charging" -> ev_fleet_size > 0
      [] OTHER -> TRUE

\* the generators whose non-null result was collected
Candidates == {g \in GeneratorSet : built[g] # NoRec}
\* the generators with a recommendation in the list
Listed == {recommendations[i].gen : i \in 1..Len(recommendations)}

\* C1 as stated: when some generator raised, the call still returns, the
\* raising generator contributes nothing, every generator whose inputs are
\* supplied was invoked, and every non-null result of the others is in the
\* returned list.
C1_AllResultsReturned ==
    /\ propagated = FALSE
    /\ pc # "aborted"
    /\ (Done /\ raised # {}) =>
          /\ raised \cap Listed = {}
          /\ invoked = {g \in GeneratorSet : Supplied(g)}
          /\ Candidates \subseteq Listed

\* C1 amended: when some generator raised, the call still returns, the
\* raising generator contributes nothing, every generator whose inputs are
\* supplied was invoked, and every non-null result of the others is a
\* candidate of the ranking: it is in the returned list unless the list is
\* full with recommendations of at least its cost_savings.
C1_FailureIsolation ==
    /\ propagated = FALSE
    /\ pc # "aborted"
    /\ (Done /\ raised # {}) =>
          /\ raised \cap Listed = {}
          /\ invoked = {g \in GeneratorSet : Supplied(g)}
          /\ \A g \in Candidates \ Listed :
                /\ Len(recommendations) = TopN
                /\ \A i \in 1..TopN :
                      recommendations[i].cost_savings >= built[g].cost_savings

\* one generator raised, the six others returned a recommendation, and the
\* call returned
C1_Witness ==
    /\ Done
    /\ Cardinality(raised) = 1
    /\ Cardinality(Candidates) = Len(Generators) - 1

\* C2: the returned list has min(5, n) of the n candidates, in order of
\* non-increasing cost_savings, and no dropped candidate has more
\* cost_savings than a returned one.
C2_RankingAndTruncation ==
    Done =>
       LET n == Cardinality(Candidates)
       IN  /\ Len(recommendations) = IF n < TopN THEN n ELSE TopN
           /\ Listed \subseteq Candidates
           /\ Cardinality(Listed) = Len(recommendations)
           /\ \A i \in 1..Len(recommendations) - 1 :
                 recommendations[i].cost_savings
                     >= recommendations[i + 1].cost_savings
           /\ \A g \in Candidates \ Listed : \A i \in 1..Len(recommendations) :
                 recommendations[i].cost_savings >= built[g].cost_savings

\* seven candidates of distinct cost_savings were ranked
C2_Witness ==
    /\ Done
    /\ Candidates = GeneratorSet
    /\ \A g, h \in GeneratorSet :
          g # h => built[g].cost_savings # built[h].cost_savings

\* C8: a listed recommendation of a generator other than
\* DemandChargeAvoidance has cost_savings >= 0 and co2_reduction >= 0.
C8_NonNegativeSavings ==
    \A i \in 1..Len(recommendations) :
       recommendations[i].gen # "demand_charge" =>
          /\ recommendations[i].cost_savings >= 0
          /\ recommendations[i].co2_reduction >= 0

\* C9: every listed recommendation has confidence in [0,100]; LoadShift's
\* is in [70,95] and, below 95, is 70 plus the whole part of the reduction
\* percentage (mean score - best score) / mean score * 100.
C9_ConfidenceRange ==
    \A i \in 1..Len(recommendations) :
       LET r == recommendations[i]
           score == combined_scores(consumption_forecast, carbon_forecast)
           total == SumSeq(score)
           reduction == 100 * (total - Len(score) * MinOf(score))
           pct == r.confidence - LoadShiftBaseConfidence
       IN  /\ r.confidence >= 0
           /\ r.confidence <= 100
           /\ r.gen = "load_shift" =>
                 /\ r.confidence >= LoadShiftBaseConfidence
                 /\ r.confidence <= LoadShiftMaxConfidence
                 /\ r.confidence < LoadShiftMaxConfidence =>
                       /\ pct * total <= reduction
                       /\ reduction <= (pct + 1) * total
                 /\ r.confidence = LoadShiftMaxConfidence =>
                       reduction >= pct * total

\* a LoadShift recommendation was returned whose reduction percentage is
\* above the cap of 25 points, and one below it
C9_Witness ==
    /\ Done
    /\ \E i \in 1..Len(recommendations) :
          LET score == combined_scores(consumption_forecast, carbon_forecast)
              total == SumSeq(score)
          IN  /\ recommendations[i].gen = "load_shift"
              /\ recommendations[i].confidence = LoadShiftMaxConfidence
              /\ 100 * (total - Len(score) * MinOf(score))
                    > (LoadShiftMaxConfidence - LoadShiftBaseConfidence + 1) * total

\* the fields of a recommendation that the generator builds
Built(r) == [r EXCEPT !.explanation = NoExplanation, !.passes = 0]

\* C10: every listed recommendation carries an explanation written by
\* exactly one _add_explanation pass, and its other fields are as the
\* generator built them.
C10_ExplainedExactlyOnce ==
    \A i \in 1..Len(recommendations) :
       LET r == recommendations[i]
       IN  /\ r.explanation.present
           /\ r.passes = 1
           /\ Built(r) = Built(built[r.gen])

\* a recommendation explained by the orchestrator and one explained by its
\* generator were returned
C10_Witness ==
    /\ Done
    /\ "load_shift" \in Listed
    /\ "ev_charging" \in Listed

\* the LoadShift block has run
LoadShiftRan == "load_shift" \in invoked

\* some consumption point has no carbon point of the same timestamp
MissingAlignment ==
    \E i \in 1..Len(consumption_forecast) :
       \A j \in 1..Len(carbon_forecast) :
          carbon_forecast[j].timestamp # consumption_forecast[i].timestamp

\* the cost estimator returns at every point of the consumption forecast
LoadShiftCostsReturn ==
    CostsAt(EstimatedLoad, Stamps(consumption_forecast),
            pricing_data, caiso_pricing).st = "ret"

\* the maximum of the consumption series, or of the carbon series, is zero
ZeroMaximum ==
    \/ MaxOf(PredictedValues(consumption_forecast)) = 0
    \/ carbon_forecast # <<>> /\ MaxOf(CarbonValuesOf(carbon_forecast)) = 0

\* C11: a consumption point without a carbon point of its timestamp, an empty
\* carbon series included, never makes LoadShift fail (the tariff and the
\* maxima being sound).
C11_CarbonJoinNeverFails ==
    (/\ LoadShiftRan
     /\ MissingAlignment
     /\ ~ZeroMaximum
     /\ LoadShiftCostsReturn)
    => "load_shift" \notin raised

\* C12: with a maximum of zero LoadShift does not divide by zero and still
\* produces a result (the carbon series being non-empty and the tariff sound).
C12_ZeroMaximumGuarded ==
    (/\ LoadShiftRan
     /\ ZeroMaximum
     /\ carbon_forecast # <<>>
     /\ LoadShiftCostsReturn)
    => built["load_shift"] # NoRec

\* LoadShift returned a recommendation
LoadShiftBuilt == built["load_shift"] # NoRec

\* the carbon intensity joined to every consumption point is the same
FlatCarbon ==
    \A i, j \in 1..Len(consumption_forecast) :
       MatchingCarbon(consumption_forecast[i].timestamp, carbon_forecast)
         = MatchingCarbon(consumption_forecast[j].timestamp, carbon_forecast)

StrictlyIncreasingConsumption ==
    \A i \in 1..(Len(consumption_forecast) - 1) :
       consumption_forecast[i].predicted_value
         < consumption_forecast[i + 1].predicted_value

\* C16: the window LoadShift recommends is the first point of the least
\* combined score; with a flat carbon series and a strictly increasing
\* consumption it is the first point.
C16_LoadShiftWindow ==
    LoadShiftBuilt =>
        LET score == combined_scores(consumption_forecast, carbon_forecast)
            start == built["load_shift"].recommended_time_start
        IN  /\ \E i \in 1..Len(consumption_forecast) :
                 /\ start = consumption_forecast[i].timestamp
                 /\ \A j \in 1..Len(score) : score[i] <= score[j]
                 /\ \A j \in 1..(i - 1) : score[j] > score[i]
            /\ (FlatCarbon /\ StrictlyIncreasingConsumption) =>
                  start = consumption_forecast[1].timestamp

\* C16 witness: two points tie on the least score and the earlier one is
\* the window
C16_Witness ==
    /\ LoadShiftBuilt
    /\ LET score == combined_scores(consumption_forecast, carbon_forecast)
       IN  \E i, j \in 1..Len(score) :
              /\ i < j
              /\ score[i] = score[j]
              /\ \A k \in 1..Len(score) : score[i] <= score[k]
              /\ built["load_shift"].recommended_time_start
                    = consumption_forecast[i].timestamp

\* the points of the forecast at or above the 75th percentile
PeakSet ==
    {i \in 1..Len(consumption_forecast) :
        100 * consumption_forecast[i].predicted_value
          >= PeakThreshold100(PredictedValues(consumption_forecast))}

\* PeakAvoidance returned a recommendation that starts at the first point
\* of the peak set; of the day rising from 10 to 33 kWh the peak set is the
\* last 6 points
PeakSetRecommended ==
    /\ PeakSet # {}
    /\ built["peak_avoidance"] # NoRec
    /\ \E i \in PeakSet :
          /\ \A j \in PeakSet : i <= j
          /\ built["peak_avoidance"].recommended_time_start
                = consumption_forecast[i].timestamp
    /\ consumption_forecast = RampConsumption =>
          PeakSet = (RampPoints - 5)..RampPoints

\* C17: for every non-empty consumption series the peak set (the points at
\* or above the 75th percentile) is non-empty and PeakAvoidance returns a
\* recommendation, never null.
C17_PeakAvoidanceTrigger ==
    "peak_avoidance" \in invoked => PeakSetRecommended

\* the maximum of the predicted consumption
PeakKw == MaxOf(PredictedValues(consumption_forecast))

\* demand_charge is present and > 0 and the maximum predicted consumption
\* is strictly greater than demand_threshold, 0 when the tariff has none
DemandChargeDue ==
    /\ pricing_data.kind = "dict"
    /\ pricing_data.demand_charge # Absent
    /\ pricing_data.demand_charge[1] > 0
    /\ PeakKw > (IF pricing_data.demand_threshold \in {Absent, NoneValue}
                 THEN 0 ELSE pricing_data.demand_threshold[1])

\* C21: DemandChargeAvoidance returns a recommendation iff demand_charge is
\* present and > 0 and the maximum predicted consumption is strictly greater
\* than demand_threshold (0 when the tariff has none), and returns null
\* otherwise; the recommendation has cost_savings = 0.15 * peak_kw *
\* demand_charge and confidence 90.
C21_DemandChargeTrigger ==
    "demand_charge" \in invoked =>
        /\ "demand_charge" \notin raised
        /\ built["demand_charge"] # NoRec <=> DemandChargeDue
        /\ built["demand_charge"] # NoRec =>
              /\ built["demand_charge"].cost_savings
                    = ReductionTargetPct * PeakKw * pricing_data.demand_charge[1]
              /\ built["demand_charge"].confidence = DemandConfidence

\* the rates of the first 24 consumption points
DayRates ==
    RatesAt(Stamps(Take(consumption_forecast, RateScanHours)),
            pricing_data, caiso_pricing)

\* (max_rate - min_rate) / max_rate >= 40%
PriceSpreadReached ==
    /\ DayRates # <<>>
    /\ MaxOf(DayRates) > 0
    /\ 100 * (MaxOf(DayRates) - MinOf(DayRates)) >= PriceSpreadPct * MaxOf(DayRates)

\* cost(0.4 * mean * 4 h at the most expensive point)
\*   - cost(0.4 * mean * 2 h * 1.2 at the cheapest point) > 1,
\* the mean being that of the first 8 consumption points; the costs are in
\* mills, times 100 * the number of points averaged
PrecoolSavingsReached ==
    LET day == Take(consumption_forecast, RateScanHours)
        head == PredictedValues(Take(consumption_forecast, HvacAverageHours))
        normal_cost == calculate_electricity_cost(160 * SumSeq(head),
                           day[LastMaxIndex(DayRates)].timestamp,
                           pricing_data, caiso_pricing)
        precool_cost == calculate_electricity_cost(96 * SumSeq(head),
                            day[FirstMinIndex(DayRates)].timestamp,
                            pricing_data, caiso_pricing)
    IN  /\ normal_cost.st = "ret"
        /\ precool_cost.st = "ret"
        /\ normal_cost.val - precool_cost.val > 1000 * 100 * Len(head)

HvacPrecoolDue ==
    /\ Len(weather_forecast) >= PrecoolMinWeather
    /\ PriceSpreadReached
    /\ PrecoolSavingsReached

\* C22: HVACPrecool returns a recommendation iff the weather forecast has at
\* least 8 points, the spread of the rates of the first 24 consumption
\* points is >= 40% and the savings are strictly greater than 1, and
\* returns null in every other case; the recommendation has confidence 80.
C22_HvacPrecoolTrigger ==
    "hvac_precool" \in invoked =>
        /\ "hvac_precool" \notin raised
        /\ built["hvac_precool"] # NoRec <=> HvacPrecoolDue
        /\ built["hvac_precool"] # NoRec =>
              built["hvac_precool"].confidence = HvacConfidence

\* HVACPrecool returned a recommendation; it returned null on a forecast of
\* fewer than 8 weather points, on a spread below 40% and on savings of at
\* most 1
C22_Witness ==
    /\ "hvac_precool" \in invoked
    /\ built["hvac_precool"] # NoRec
    /\ HvacPrecoolDue

\* the indices, among the first 24 consumption points, of the overnight
\* slots when the last overnight hour is "last": 22:00 up to that hour
OvernightSlots(last) ==
    {i \in 1..Len(Take(consumption_forecast, RateScanHours)) :
        \/ HourOf(consumption_forecast[i].timestamp) >= OvernightFrom
        \/ HourOf(consumption_forecast[i].timestamp) <= last}

DaytimeSlots(last) ==
    {i \in 1..Len(Take(consumption_forecast, RateScanHours)) :
        i \notin OvernightSlots(last)}

RateOfSlot(i) ==
    get_rate_at_time(consumption_forecast[i].timestamp,
                     pricing_data, caiso_pricing).val

RECURSIVE SumRates(_)
SumRates(slots) ==
    IF slots = {} THEN 0
    ELSE LET i == CHOOSE j \in slots : TRUE
         IN  RateOfSlot(i) + SumRates(slots \ {i})

\* (mean daytime rate - cheapest overnight rate) * 50 kWh * ev_fleet_size
\* >= 5, the rates in mills and both sides times the number of daytime
\* slots; 0.20 stands for the mean of no daytime slot
EvSavingsReached(last) ==
    LET night == OvernightSlots(last)
        day == DaytimeSlots(last)
        k == IF day = {} THEN 1 ELSE Cardinality(day)
        day_rate_sum == IF day = {} THEN DefaultDaytimeRate ELSE SumRates(day)
    IN  /\ night # {}
        /\ \E i \in night :
              /\ \A j \in night : RateOfSlot(i) <= RateOfSlot(j)
              /\ (day_rate_sum - k * RateOfSlot(i)) * EvChargeKwh * ev_fleet_size
                    >= 5 * 1000 * k

\* C23: EVCharging returns a recommendation iff ev_fleet_size > 0 and the
\* savings (mean daytime rate - cheapest overnight rate) * 50 kWh *
\* ev_fleet_size are >= 5, the overnight slots being the points of
\* 22:00-06:00 and the 06:00 hour being a daytime slot.
C23_EvChargingTrigger ==
    "ev_charging" \in invoked =>
        (built["ev_charging"] # NoRec
            <=> (ev_fleet_size > 0 /\ EvSavingsReached(OvernightTo - 1)))

\* the indices of the weather points with a temperature strictly above 32
HotPoints ==
    {i \in 1..Len(weather_forecast) :
        /\ weather_forecast[i].temperature # Absent
        /\ weather_forecast[i].temperature[1] > HotTemperature}

FirstHotPoint == CHOOSE i \in HotPoints : \A j \in HotPoints : i <= j

RECURSIVE SumTemperatures(_)
SumTemperatures(points) ==
    IF points = {} THEN 0
    ELSE LET i == CHOOSE j \in points : TRUE
         IN  weather_forecast[i].temperature[1] + SumTemperatures(points \ {i})

\* the cost, priced at the first hot point, of the extra consumption
\*   mean(consumption of the first k points) * (mean temperature - 25)%  * k
\* over the k hot points; times 100 * the number of points averaged
AdditionalCost ==
    LET k == Cardinality(HotPoints)
        head == PredictedValues(Take(consumption_forecast, k))
    IN  calculate_electricity_cost(
            SumSeq(head) * (SumTemperatures(HotPoints) - BaselineTemperature * k),
            weather_forecast[FirstHotPoint].timestamp,
            pricing_data, caiso_pricing)

\* C24: WeatherAlert returns a recommendation iff at least 3 weather points
\* have a temperature strictly above 32, and null otherwise; the
\* recommendation has cost_savings = 0.30 * additional_cost, the cost of
\* the extra consumption priced at the first hot point, and confidence 85.
C24_WeatherAlertTrigger ==
    "weather_alert" \in invoked =>
        /\ built["weather_alert"] # NoRec
              <=> Cardinality(HotPoints) >= HeatwaveHours
        /\ built["weather_alert"] # NoRec =>
              /\ AdditionalCost.st = "ret"
              /\ built["weather_alert"].cost_savings
                    \in Round(3 * AdditionalCost.val,
                              10 * 1000 * Len(Take(consumption_forecast,
                                                   Cardinality(HotPoints))))
              /\ built["weather_alert"].confidence = WeatherConfidence

\* the sum of the predicted consumption over the baseline, point by point
ExcessOverBaseline ==
    SumSeq(PredictedValues(consumption_forecast))
        - Len(consumption_forecast) * historical_baseline[1]

\* the mean predicted consumption exceeds the baseline by strictly more
\* than 20%
EfficiencyAlertDue ==
    /\ historical_baseline # Absent
    /\ consumption_forecast # <<>>
    /\ 100 * ExcessOverBaseline
          > EfficiencyThresholdPct * Len(consumption_forecast)
               * historical_baseline[1]

\* C25: EfficiencyAlert returns a recommendation iff historical_baseline is
\* supplied, the consumption series is non-empty and the mean predicted
\* consumption exceeds the baseline by strictly more than 20% (exactly 20%
\* yields null); the recommendation has cost_savings = (mean - baseline)
\* * 24 * 30 * 0.12 and confidence 75.
C25_EfficiencyAlertTrigger ==
    "efficiency_alert" \in invoked =>
        /\ "efficiency_alert" \notin raised
        /\ built["efficiency_alert"] # NoRec <=> EfficiencyAlertDue
        /\ built["efficiency_alert"] # NoRec =>
              /\ built["efficiency_alert"].cost_savings
                    \in Round(ExcessOverBaseline * 24 * 30 * 12,
                              Len(consumption_forecast))
              /\ built["efficiency_alert"].confidence = EfficiencyConfidence

\* EfficiencyAlert returned null on a mean of exactly 20% over the baseline
C25_Witness ==
    /\ "efficiency_alert" \in invoked
    /\ historical_baseline # Absent
    /\ historical_baseline[1] > 0
    /\ 100 * ExcessOverBaseline
          = EfficiencyThresholdPct * Len(consumption_forecast)
               * historical_baseline[1]
    /\ built["efficiency_alert"] = NoRec

\* the explained recommendations: those of the list
Explained == {recommendations[i] : i \in 1..Len(recommendations)}

\* C26: every explained recommendation is labelled 'high' iff its
\* confidence is >= 85, 'medium' iff it is in [70, 85) and 'low' iff it is
\* < 70; so 90 and 85 are high, 80 and 75 medium.
C26_ConfidenceLabel ==
    \A r \in Explained :
        /\ r.explanation.present
        /\ r.explanation.confidence_label = "high" <=> r.confidence >= 85
        /\ r.explanation.confidence_label = "medium"
              <=> (r.confidence >= 70 /\ r.confidence < 85)
        /\ r.explanation.confidence_label = "low" <=> r.confidence < 70

\* recommendations of confidence 90, 85, 80 and 75 were explained: the
\* first two as high, the others as medium
C26_Witness ==
    /\ \A c \in {90, 85} : \E r \in Explained :
          r.confidence = c /\ r.explanation.confidence_label = "high"
    /\ \A c \in {80, 75} : \E r \in Explained :
          r.confidence = c /\ r.explanation.confidence_label = "medium"

\* the uncertainty, in percent, that each generator's recommendation is
\* explained with
UncertaintyPct(g) ==
    CASE g \in {"load_shift", "peak_avoidance"} -> 15
      [] g \in {"demand_charge", "ev_charging"} -> 10
      [] g \in {"weather_alert", "hvac_precool"} -> 20
      [] g = "efficiency_alert" -> 25

\* C27 as stated: every explained recommendation has expected =
\* cost_savings, best_case = cost_savings * (1 + uncertainty) and
\* worst_case = cost_savings * (1 - uncertainty), with the uncertainty of
\* its generator.
C27_SavingsRangeExact ==
    \A r \in Explained :
        /\ r.explanation.expected = r.cost_savings
        /\ 100 * r.explanation.best_case
              = r.cost_savings * (100 + UncertaintyPct(r.gen))
        /\ 100 * r.explanation.worst_case
              = r.cost_savings * (100 - UncertaintyPct(r.gen))

\* C27 amended: every explained recommendation has expected = cost_savings,
\* and best_case and worst_case are cost_savings * (1 + uncertainty) and
\* cost_savings * (1 - uncertainty) rounded to 2 decimals, with the
\* uncertainty of its generator.
C27_SavingsRangeRounded ==
    \A r \in Explained :
        /\ r.explanation.expected = r.cost_savings
        /\ r.explanation.best_case
              \in Round(r.cost_savings * (100 + UncertaintyPct(r.gen)), 100)
        /\ r.explanation.worst_case
              \in Round(r.cost_savings * (100 - UncertaintyPct(r.gen)), 100)

\* the recommendations of all seven generators were explained, one of them
\* with a best case that is not a whole number of cents before rounding
C27_Witness ==
    /\ GeneratorSet = {g \in GeneratorSet : built[g] # NoRec}
    /\ \E r \in Explained :
          (r.cost_savings * (100 + UncertaintyPct(r.gen))) % 100 # 0
    /\ \A u \in {10, 15, 20, 25} : \E r \in Explained :
          /\ UncertaintyPct(r.gen) = u
          /\ r.cost_savings # 0

PeakAvoidanceBuilt == built["peak_avoidance"] # NoRec

\* the sum, over the points of the peak set, of the rate at the point
PeakRateSum(peaks) ==
    SumSeq([i \in 1..Len(consumption_forecast) |->
               IF i \in peaks
               THEN get_rate_at_time(consumption_forecast[i].timestamp,
                                     pricing_data, caiso_pricing).val
               ELSE 0])

\* the least rate over the whole consumption series
SeriesMinRate ==
    MinOf(RatesAt(Stamps(consumption_forecast), pricing_data, caiso_pricing))

\* the sum of the predicted consumption over the peak set: reducible_load
\* is a fifth of its mean
PeakLoadSum(peaks) ==
    SumSeq([i \in 1..Len(consumption_forecast) |->
               IF i \in peaks THEN consumption_forecast[i].predicted_value
               ELSE 0])

\* C29: the cost_savings of a PeakAvoidance recommendation are the sum over
\* the peak points of reducible_load * rate(point) minus reducible_load *
\* (least rate over the whole series) * (number of peak points), and are
\* never negative.
C29_PeakSavingsNonNegative ==
    PeakAvoidanceBuilt =>
        LET peaks == PeakSet
            k == Cardinality(peaks)
        IN  /\ built["peak_avoidance"].cost_savings >= 0
            /\ built["peak_avoidance"].cost_savings
                  \in Round(PeakLoadSum(peaks)
                              * (PeakRateSum(peaks) - k * SeriesMinRate),
                            50 * k)

\* PeakAvoidance returned positive savings on a series with a negative
\* realtime price
C29_Witness ==
    /\ PeakAvoidanceBuilt
    /\ SeriesMinRate < 0
    /\ built["peak_avoidance"].cost_savings > 0

-----------------------------------------------------------------------------
(* Properties of the HTTP routes (SpecHttp) *)

\* C13: with fewer than 48 measurements fetched, either route answers 400
\* and reaches neither the training nor the generation.
C13_InsufficientDataIs400 ==
    (endpoint # "none" /\ fetched /\ measurements < MinMeasurements) =>
        /\ http_status = 400
        /\ ~trained
        /\ ~generated

-----------------------------------------------------------------------------
(* Properties of the /generate handler (SpecRoute) *)

\* the generators named by the claim
RouteGenerators == {"load_shift", "peak_avoidance", "demand_charge"}

\* C30: through POST /api/recommend/generate the engine is called without
\* weather_forecast, historical_baseline and ev_fleet_size, so only
\* LoadShift, PeakAvoidance and DemandChargeAvoidance are invoked and the
\* response holds at most 3 recommendations, whatever weather data was
\* fetched.
C30_RouteGenerators ==
    /\ invoked \subseteq RouteGenerators
    /\ Listed \subseteq RouteGenerators
    /\ Len(recommendations) <= 3
    /\ step \in {"running", "responded"} =>
          /\ weather_forecast = <<>>
          /\ historical_baseline = Absent
          /\ ev_fleet_size = 0

\* the response of a request that fetched a heatwave of 8 weather points
\* holds the recommendations of the three generators
C30_Witness ==
    /\ step = "responded"
    /\ http_status = 200
    /\ Len(weather_forecasts) >= PrecoolMinWeather
    /\ Cardinality({i \in 1..Len(weather_forecasts) :
                       /\ weather_forecasts[i].temperature # Absent
                       /\ weather_forecasts[i].temperature[1] > HotTemperature})
          >= HeatwaveHours
    /\ Listed = RouteGenerators
    /\ Len(recommendations) = 3

-----------------------------------------------------------------------------
(* Properties of the WeatherService (SpecWeather) *)

\* C14: within a day the outbound requests of the process, through any
\* number of WeatherService objects, never exceed max_daily_calls.
C14_DailyLimit == outbound <= MaxDailyCalls

\* the step is a get_weather_forecast call: the day, the number of objects
\* and the age of the cache entries are as before
ForecastCall ==
    /\ last_call' # NoCall
    /\ today' = today
    /\ Len(instances') = Len(instances)
    /\ \A k \in Locations : cache[k] = "valid" => cache'[k] = "valid"
    /\ <<cache, instances, outbound, returned, last_call>>
          # <<cache', instances', outbound', returned', last_call'>>

\* the object the call of the step is made through has an API key, as the
\* one that stored the entry
CallerConfigured == instances[last_call'.self].api_key

\* the call of the step is for a key whose entry is younger than
\* cache_duration_hours
CallOnValidEntry ==
    ForecastCall /\ CallerConfigured /\ cache[last_call'.cache_key] = "valid"

\* the call of the step is for a key whose entry has expired, through an
\* object whose daily limit allows a request
CallOnExpiredEntry ==
    /\ ForecastCall
    /\ CallerConfigured
    /\ cache[last_call'.cache_key] = "expired"
    /\ can_make_api_call(instances[last_call'.self], today).ok

\* C28: a get_weather_forecast call for a key whose entry was stored less
\* than cache_duration_hours ago, through any WeatherService object, returns
\* the cached forecasts, issues no API request and leaves the cache and the
\* API call counters unchanged; a call for an expired entry issues an API
\* request if the daily limit allows.
C28_CacheReuse ==
    [][/\ CallOnValidEntry =>
             /\ returned' = "cache"
             /\ outbound' = outbound
             /\ cache' = cache
             /\ instances' = instances
       /\ CallOnExpiredEntry => outbound' = outbound + 1]_vars

\* the second object, which never counted an API call, returned the entry
\* the first object stored
C28_Witness ==
    /\ Len(instances) = 2
    /\ last_call.self = 2
    /\ returned = "cache"
    /\ cache[last_call.cache_key] = "valid"
    /\ instances[2].api_call_count = Absent
    /\ instances[1].api_call_count # Absent
    /\ instances[1].api_call_count[1] > 0

-----------------------------------------------------------------------------
(* Properties of the period-match rule (SpecPeriod) *)

\* every range of the period's hours unpacks to a start and an end
WellFormedHours ==
    /\ p_config.hours.kind # "none"
    /\ \A i \in 1..Len(p_config.hours.ranges) :
          Len(p_config.hours.ranges[i]) = 2

\* the hours of the day in [start, end), wrapping around midnight when
\* start > end
HoursOfRange(r) ==
    IF r[1] > r[2] THEN {h \in 0..23 : h >= r[1]} \cup {h \in 0..23 : h < r[2]}
    ELSE {h \in 0..23 : r[1] <= h /\ h < r[2]}

\* the hours of the day in some range of the list
HoursIn(ranges) == UNION {HoursOfRange(ranges[i]) : i \in 1..Len(ranges)}

CoveredHours == HoursIn(p_config.hours.ranges)

ValidDays == IF p_config.days.present THEN p_config.days.set ELSE AllDays

----------------------------------------------------------------------------
(* Properties of the resolver and the cost estimator (SpecRate) *)

RateCalled == rate_result # NotCalled
CostCalled == cost_result # NotCalled

\* a realtime record supplied the rate of the call
RealtimeSupplied == CaisoLookup(q_timestamp, caiso_pricing).st = "ret"

\* what the three schema variants make of the query: a rate ("ret"), no
\* variant matching ("fall"), or a parse step failing ("raise")
VariantOutcome ==
    LET rs == pricing_data.rate_structure
        h == HourOf(q_timestamp)
        d == WeekdayOf(q_timestamp)
        m == MonthOf(q_timestamp)
        f1 == SeasonalPeriods(rs, h, d, m)
        f2 == TimeOfUseCharges(rs, h, m)
    IN  IF f1.st # "fall" THEN f1
        ELSE IF f2.st # "fall" THEN f2
        ELSE FlatPeriods(rs, h, d)

\* the rate_structure is a non-empty dict and the timestamp parses
StructureConsulted ==
    /\ ~RealtimeSupplied
    /\ pricing_data.kind = "dict"
    /\ pricing_data.rate_structure.kind = "dict"
    /\ q_timestamp.ok

\* the rate_structure is empty, or has none of the three shapes
Unrecognized ==
    LET rs == pricing_data.rate_structure
    IN  \/ rs.kind = "empty"
        \/ /\ rs.kind = "dict"
           /\ rs.seasons.kind # "dict"
           /\ (rs.timeOfUse.kind = "absent" \/ rs.energyCharges.kind # "dict")
           /\ \A i \in 1..Len(rs.periods) :
                ~rs.periods[i].isdict \/ rs.periods[i].rate = Absent

\* C3: get_rate_at_time returns a rate and never raises, whatever the
\* timestamp, the pricing_data and the realtime list; with no realtime price
\* for the hour, an unrecognized or empty rate_structure yields off_peak_rate
\* or 0.12.
C3_ResolverNeverRaises ==
    RateCalled =>
        /\ rate_result.st = "ret"
        /\ (pricing_data.kind = "dict" /\ Unrecognized /\ ~RealtimeSupplied) =>
              rate_result.val \in {GetOr(pricing_data.off_peak_rate, DefaultRate),
                                   DefaultRate}

\* C3 witness: the structure lookup raised inside the call and the call
\* returned all the same
C3_Witness ==
    /\ RateCalled
    /\ StructureConsulted
    /\ VariantOutcome.st = "raise"
    /\ rate_result.st = "ret"

\* C4: the resolved rate is always strictly positive.
C4_RatePositive ==
    RateCalled => (rate_result.st = "ret" /\ rate_result.val > 0)

\* C5: when no variant matches the query or a parse step fails, the resolver
\* returns off_peak_rate if present and 0.12 only if it is absent.
C5_FallbackIsOffPeakRate ==
    (/\ RateCalled
     /\ ~RealtimeSupplied
     /\ pricing_data.kind = "dict"
     /\ \/ pricing_data.rate_structure.kind # "dict"
        \/ ~q_timestamp.ok
        \/ VariantOutcome.st # "ret")
    => rate_result = Ret(GetOr(pricing_data.off_peak_rate, DefaultRate))

\* the records of the realtime list in the query's hour
MatchingRecords ==
    {i \in 1..Len(caiso_pricing) :
        /\ caiso_pricing[i].has_ts
        /\ caiso_pricing[i].ts.ok
        /\ q_timestamp.ok
        /\ TruncHour(caiso_pricing[i].ts) = TruncHour(q_timestamp)}

FirstMatchingRecord ==
    caiso_pricing[CHOOSE i \in MatchingRecords : \A j \in MatchingRecords : i <= j]

\* C6: when some realtime record is in the query's hour, the resolver returns
\* the price of the first such record, whatever the tariff.
C6_RealtimePrecedence ==
    (RateCalled /\ MatchingRecords # {}) =>
        rate_result = Ret(RecordPrice(FirstMatchingRecord))

\* C7: the cost is the consumption times the resolved rate, and the cost
\* estimator returns wherever the resolver returns.
C7_CostAgreesWithRate ==
    (RateCalled /\ CostCalled) =>
        /\ cost_result.st = rate_result.st
        /\ cost_result.val = q_kwh * rate_result.val

\* the rate_structure has the shape of the Seasonal-Periods variant
SeasonalShape == pricing_data.rate_structure.seasons.kind = "dict"

\* the rate_structure has the shape of the TimeOfUse+Charges variant
TimeOfUseShape ==
    /\ pricing_data.rate_structure.timeOfUse.kind = "dict"
    /\ pricing_data.rate_structure.energyCharges.kind = "dict"

\* the rates the resolver falls back to
FallbackRates == {GetOr(pricing_data.off_peak_rate, DefaultRate), DefaultRate}

\* the rate is the one the variant found, or a fallback rate if it found none
DeterminedBy(variant) ==
    rate_result.val \in (IF variant.st = "ret" THEN {variant.val}
                         ELSE FallbackRates)

\* C18: the variants are tried in the order Seasonal-Periods,
\* TimeOfUse+Charges, Flat-Periods, and the first whose shape the
\* rate_structure has determines the result alone: no later variant of the
\* same structure supplies the rate.
C18_VariantOrder ==
    (RateCalled /\ StructureConsulted) =>
        LET rs == pricing_data.rate_structure
            h == HourOf(q_timestamp)
            d == WeekdayOf(q_timestamp)
            m == MonthOf(q_timestamp)
        IN  /\ SeasonalShape => DeterminedBy(SeasonalPeriods(rs, h, d, m))
            /\ (~SeasonalShape /\ TimeOfUseShape) =>
                  DeterminedBy(TimeOfUseCharges(rs, h, m))

\* the season of the query: 'summer' iff the month is in
\* seasons.summer.months, [5..9] by default
ChosenSeason ==
    LET seasons == pricing_data.rate_structure.seasons
        months == IF seasons.summer.kind = "dict" /\ seasons.summer.months.present
                  THEN seasons.summer.months.set
                  ELSE {5, 6, 7, 8, 9}
    IN  IF MonthOf(q_timestamp) \in months THEN seasons.summer
        ELSE seasons.winter

\* the periods of the chosen season, in iteration order
SeasonPeriods ==
    IF ChosenSeason.kind = "dict" /\ ChosenSeason.periods.present
    THEN ChosenSeason.periods.items ELSE <<>>

\* the periods of the chosen season that satisfy the period-match rule
MatchingSeasonPeriods ==
    {i \in 1..Len(SeasonPeriods) :
        /\ SeasonPeriods[i].isdict
        /\ is_in_period(HourOf(q_timestamp), WeekdayOf(q_timestamp),
                        SeasonPeriods[i]) = "in"}

\* the seasons are mappings and the hours of their periods well formed
SeasonsWellFormed ==
    /\ pricing_data.rate_structure.seasons.summer.kind # "number"
    /\ ChosenSeason.kind # "number"
    /\ \A i \in 1..Len(SeasonPeriods) :
          SeasonPeriods[i].isdict =>
             is_in_period(HourOf(q_timestamp), WeekdayOf(q_timestamp),
                          SeasonPeriods[i]) # "raise"

\* C19: for a rate_structure with a 'seasons' mapping the rate is the
\* 'rate' (0.12 if the period has none) of the first period of the query's
\* season that matches the hour and the day; when no period of the season
\* matches, the rate is what the structure without its seasons gives, so the
\* periods of the other season never supply it.
C19_SeasonalResolution ==
    (RateCalled /\ StructureConsulted /\ SeasonalShape /\ SeasonsWellFormed) =>
        IF MatchingSeasonPeriods # {}
        THEN \E i \in MatchingSeasonPeriods :
                /\ \A j \in MatchingSeasonPeriods : i <= j
                /\ rate_result = Ret(GetOr(SeasonPeriods[i].rate, DefaultRate))
        ELSE rate_result =
                get_rate_at_time(q_timestamp,
                    [pricing_data EXCEPT !.rate_structure.seasons = NoSeasons],
                    caiso_pricing)

\* C19 witness: a summer month named by seasons.summer.months, two periods
\* of the summer match and the first supplied the rate
C19_Witness ==
    /\ RateCalled /\ StructureConsulted /\ SeasonalShape
    /\ pricing_data.rate_structure.seasons.summer.months.present
    /\ ChosenSeason = pricing_data.rate_structure.seasons.summer
    /\ Cardinality(MatchingSeasonPeriods) >= 2
    /\ rate_result = Ret(GetOr(SeasonPeriods[1].rate, DefaultRate))
    /\ SeasonPeriods[1].rate # SeasonPeriods[2].rate

\* the timeOfUse season of the query: 'summer' iff the month is in
\* timeOfUse.summer.months, [5..9] by default
ChosenTouSeason ==
    LET tou == pricing_data.rate_structure.timeOfUse
        months == IF tou.summer.kind = "dict" /\ tou.summer.months.present
                  THEN tou.summer.months.set
                  ELSE {5, 6, 7, 8, 9}
    IN  IF MonthOf(q_timestamp) \in months THEN tou.summer ELSE tou.winter

TouPriority == <<"onPeak", "midPeak", "offPeak">>

\* the season is a mapping and every range of its periods unpacks
TouWellFormed ==
    /\ ChosenTouSeason.kind = "dict"
    /\ \A k \in 1..Len(TouPriority) :
          /\ ChosenTouSeason[TouPriority[k]].kind # "none"
          /\ \A i \in 1..Len(ChosenTouSeason[TouPriority[k]].ranges) :
                Len(ChosenTouSeason[TouPriority[k]].ranges[i]) = 2

\* the ranks of the periods whose ranges hold the query's hour
MatchingTouPeriods ==
    {k \in 1..Len(TouPriority) :
        HourOf(q_timestamp) \in HoursIn(ChosenTouSeason[TouPriority[k]].ranges)}

\* the TimeOfUse+Charges variant is reached: no seasonal period returned
TimeOfUseReached ==
    /\ RateCalled /\ StructureConsulted
    /\ TimeOfUseShape
    /\ SeasonalPeriods(pricing_data.rate_structure, HourOf(q_timestamp),
                       WeekdayOf(q_timestamp), MonthOf(q_timestamp)).st = "fall"

\* C20: for a rate_structure with 'timeOfUse' and 'energyCharges' the rate
\* is energyCharges[p] (0.12 if it has no p) for the first p of onPeak,
\* midPeak, offPeak whose ranges of the query's season hold the hour; of
\* several periods holding the hour the one of higher priority wins.
C20_TimeOfUseResolution ==
    (TimeOfUseReached /\ TouWellFormed /\ MatchingTouPeriods # {}) =>
        \E k \in MatchingTouPeriods :
           /\ \A j \in MatchingTouPeriods : k <= j
           /\ rate_result =
                 Ret(GetOr(pricing_data.rate_structure.energyCharges[TouPriority[k]],
                           DefaultRate))

\* C20 witness: the hour lies in the ranges of onPeak and of offPeak, and
\* the onPeak charge is the rate
C20_Witness ==
    /\ TimeOfUseReached /\ TouWellFormed
    /\ {1, 3} \subseteq MatchingTouPeriods
    /\ pricing_data.rate_structure.energyCharges.onPeak
         # pricing_data.rate_structure.energyCharges.offPeak
    /\ rate_result.val = GetOr(pricing_data.rate_structure.energyCharges.onPeak,
                               DefaultRate)

====
